---- MODULE Spec2Model ----
(***************************************************************************)
(* Verification model of the Gemini-CLI agent runtime:                     *)
(*   - the non-interactive turn loop (runNonInteractive),                   *)
(*   - the command safety classifier (analyzeSafety) over the command      *)
(*     safety database, in its current and its historical implementation,  *)
(*   - the write_file tool (WriteFileTool) under the approval mode,        *)
(*   - the content a write_file call shows, writes and reports,            *)
(*   - the command-line front end: the start of the process (main) and     *)
(*     the keypress hook of the interactive mode (useEnhancedKeypress),    *)
(*     and the terminal setup of VS Code (configureVSCode).                *)
(***************************************************************************)
EXTENDS Integers, Sequences, FiniteSets, TLC

VARIABLES
    \* ---- turn loop (runNonInteractive) ----
    pc,                 \* position of the async function between two awaits
    round,              \* number of requests sent so far
    currentMessages,    \* the pending outgoing message [role, parts]
    functionCalls,      \* calls accumulated from the stream of this round
    toolResponseParts,  \* response parts collected in this round
    fcIdx,              \* index of the call being executed (for .. of)
    aborted,            \* abortController.signal.aborted
    stdout,             \* what process.stdout.write and console.log have written
    stderr,             \* what console.error has written
    exitCode,           \* -1 while the process runs, 0 after return, 1 after process.exit(1)
    telemetry,          \* "unknown" until the process ends, then "on" | "off" | "shutdown"
    now,                \* the clock Date.now() reads
    streamOpen,         \* a model stream is being consumed
    toolsRunning,       \* number of executeToolCall invocations not yet returned
    requests,           \* history: every message handed to sendMessageStream
    received,           \* history: every response consumed, with its round
    issued,             \* history: per completed stream, the calls it carried
    dispatched,         \* history: every request handed to executeToolCall
    results,            \* history: every result executeToolCall returned
    abortedAt,          \* history: loop position at which the token was signaled
    \* ---- classifier (analyzeSafety) ----
    command,            \* the raw command string under analysis (tokens and blanks)
    level,              \* result of the current analyzeSafety ("" before the call)
    legacyLevel,        \* result of the historical analyzeSafety ("" before the call)
    autoApprove,        \* the call of shouldAutoApprove and what each implementation returned
    \* ---- write_file (WriteFileTool) ----
    approvalMode,       \* config.getApprovalMode(): "DEFAULT" | "AUTO_EDIT" | "YOLO"
    target,             \* what is at params.file_path on disk
    changes,            \* number of changes other processes made to the target
    writeCalls,         \* number of write_file calls handed to the tool so far
    writePc,            \* position of the current call between two awaits
    params,             \* parameters of the current call
    requested,          \* a confirmation request was issued for the current call
    outcome,            \* the answer given to that request ("" while there is none)
    confirmations,      \* history: calls a confirmation request was issued for
    writes,             \* history: calls that modified the filesystem
    \* ---- command-line front end ----
    overwrite,          \* the content of a write_file call in overwrite mode: a record of
                        \*   pc        position of the call between two awaits
                        \*   content   params.content ("none" before the call)
                        \*   proposed  the 'Proposed' side of the confirmation diff ("none" without one)
                        \*   reported  the 'Written' side of the result diff ("none" without one)
                        \*   disk      what the call wrote to the file ("none" while it has not)
    hook,               \* the keypress hook (useEnhancedKeypress): a record of
                        \*   active               the effect ran and its listener is installed
                        \*   kitty                kittyProtocolEnabled
                        \*   kittySequenceBuffer  kittySequenceBuffer.current
                        \*   isPaste, pasteBuffer the variables of the effect's closure
                        \*   delivered            history: the keys handed to onKeypress
                        \*   received             history: the keys the listener was called
                        \*                        with, and the cleanups of the effect
    setup,              \* the terminal setup of VS Code (configureVSCode): a record of
                        \*   pc         position of configureVSCode between two awaits
                        \*   file       what keybindings.json holds ("absent" without the file)
                        \*   content    what readFile returned ("none" before it)
                        \*   backup     what the backup copy holds ("none" without one)
                        \*   previous   what the file held when it was written ("none" before)
                        \*   rewritten  an existing file was written
                        \*   result     "" while it runs, then "success" or "failure"
                        \*   edits      number of changes other programs made to the file
    launch              \* the start of the process (main): a record of
                        \*   stdinIsTTY    process.stdin.isTTY: "true" | "false" | "undefined"
                        \*   question      config.getQuestion(): "undefined", "" or a question
                        \*   settings      settings.merged.excludeTools
                        \*   pc            position of main between two awaits
                        \*   mode          the branch the switch of main took ("" before it)
                        \*   excludeTools  excluded tools of the configuration in use
                        \*   executed      history: names of the tools a call was executed for
                        \*   exit          -1 while the process runs, else the code of process.exit

loopVars == <<pc, round, currentMessages, functionCalls, toolResponseParts, fcIdx,
              aborted, stdout, stderr, exitCode, telemetry, now, streamOpen,
              toolsRunning, requests, received, issued, dispatched, results,
              abortedAt>>
classifierVars == <<command, level, legacyLevel, autoApprove>>
writeVars == <<approvalMode, target, changes, writeCalls, writePc, params, requested,
               outcome, confirmations, writes>>
cliVars == <<launch, overwrite, hook, setup>>
vars == <<loopVars, classifierVars, writeVars, cliVars>>

(***************************************************************************)
(* Bounds of the model                                                     *)
(***************************************************************************)
MaxChunks == 3      \* responses consumed in one run
MaxCalls == 2       \* function calls received in one run

(***************************************************************************)
(* Parts, chunks and tool calls                                            *)
(***************************************************************************)
Undefined == "undefined"
NoCall == [name |-> "", id |-> ""]

\* Names toolRegistry resolves.
Registry == {"read_file"}

TextPart(t)    == [text |-> <<t>>, thought |-> FALSE, functionCall |-> NoCall]
ThoughtPart(t) == [text |-> <<t>>, thought |-> TRUE,  functionCall |-> NoCall]
CallPart(fc)   == [text |-> <<>>,  thought |-> FALSE, functionCall |-> fc]

\* The responses a stream may yield: the parts of candidates[0].content.
Chunk ==
    LET T  == TextPart("a")
        TH == ThoughtPart("t")
        C1 == CallPart([name |-> "read_file", id |-> "c1"])
        C2 == CallPart([name |-> "ghost", id |-> Undefined])
    IN { <<T>>, <<TH, T>>, <<T, TH>>, <<C2>>, <<T, C1>>, <<C2, C2>> }

RECURSIVE JoinText(_)
JoinText(parts) ==
    IF parts = <<>> THEN <<>>
    ELSE Head(parts).text \o JoinText(Tail(parts))

\* The text of a response; null and '' are both falsy at the only use (the
\* write is skipped) and both are the empty sequence here.
getResponseText(resp) ==
    IF Len(resp) > 0
    THEN IF resp[1].thought
         THEN <<>>
         ELSE JoinText(SelectSeq(resp, LAMBDA p : p.text # <<>>))
    ELSE <<>>

RECURSIVE CallsOf(_)
CallsOf(resp) ==
    IF resp = <<>> THEN <<>>
    ELSE IF Head(resp).functionCall # NoCall
         THEN <<Head(resp).functionCall>> \o CallsOf(Tail(resp))
         ELSE CallsOf(Tail(resp))

\* callId = fc.id ?? `${fc.name}-${Date.now()}`
CallId(fc, t) ==
    IF fc.id # Undefined
    THEN [id |-> fc.id, synthesized |-> FALSE, name |-> "", ts |-> 0]
    ELSE [id |-> "", synthesized |-> TRUE, name |-> fc.name, ts |-> t]

RequestInfo(fc, t) ==
    [callId |-> CallId(fc, t), name |-> fc.name, isClientInitiated |-> FALSE]

(***************************************************************************)
(* Tool results (executeToolCall)                                          *)
(***************************************************************************)
NoError == "none"
NotFoundError == "not found in registry"   \* message carries the marker
OtherError == "execution failed"

FunctionResponse(req) ==
    [kind |-> "functionResponse", callId |-> req.callId, name |-> req.name]
StringItem(req) ==
    [kind |-> "string", callId |-> req.callId, name |-> req.name]
NullItem(req) ==
    [kind |-> "null", callId |-> req.callId, name |-> req.name]

\* responseParts is a PartListUnion: absent, one part, or an array of parts
\* and strings.
ResponseShapes(req) ==
    { [shape |-> "undefined", items |-> <<>>],
      [shape |-> "single", items |-> <<FunctionResponse(req)>>],
      [shape |-> "array",
       items |-> <<NullItem(req), FunctionResponse(req), StringItem(req)>>] }

\* What executeToolCall may return for a request: an unresolvable name is the
\* NotFound error; a resolved tool succeeds, with response parts of any shape,
\* or fails. An error result carries the error as its response part.
ToolResults(req) ==
    IF req.name \notin Registry
    THEN { [error |-> NotFoundError,
            responseParts |-> [shape |-> "single",
                               items |-> <<FunctionResponse(req)>>]] }
    ELSE { [error |-> NoError, responseParts |-> rp] : rp \in ResponseShapes(req) }
            \cup { [error |-> OtherError,
                    responseParts |-> [shape |-> "single",
                                       items |-> <<FunctionResponse(req)>>]] }

\* Lines 682-693: the parts a result adds to toolResponseParts.
RECURSIVE PushParts(_)
PushParts(items) ==
    IF items = <<>> THEN <<>>
    ELSE LET p == Head(items)
         IN (IF p.kind = "string"
             THEN <<[kind |-> "text", callId |-> p.callId, name |-> p.name]>>
             ELSE IF p.kind = "null" THEN <<>> ELSE <<p>>)
            \o PushParts(Tail(items))

NormalizeResponse(res) ==
    IF res.responseParts.shape = "undefined" THEN <<>>
    ELSE PushParts(res.responseParts.items)

\* Mutants of isToolNotFound: every error, or no error, counts as NotFound.
isToolNotFoundAnyError(res) == res.error # NoError
isToolNotFoundNever(res) == FALSE

\* Lines 671-673: error.message.includes('not found in registry')
isToolNotFound(res) == res.error = NotFoundError

\* Mutant of CollectParts: the parts of a result are put in front.
CollectPartsInFront(collected, res) == NormalizeResponse(res) \o collected

\* Lines 682-693: the parts of a result are pushed after those collected so far.
CollectParts(collected, res) == collected \o NormalizeResponse(res)

\* What stdout receives: the text process.stdout.write is given, and the
\* lines of console.log with the text they quote.
Write(text) == [log |-> FALSE, tag |-> "", text |-> text]
Log(tag, text) == [log |-> TRUE, tag |-> tag, text |-> text]

\* The text of all entries, and that of the entries process.stdout.write made.
RECURSIVE AllText(_)
AllText(out) ==
    IF out = <<>> THEN <<>> ELSE Head(out).text \o AllText(Tail(out))
Written(out) == AllText(SelectSeq(out, LAMBDA e : ~e.log))

\* Lines 561-587: the line about the message that starts the turn, and the
\* line about the request.
TurnLog(msg) ==
    << Log(IF msg.parts = <<>> THEN "Starting new turn. No previous message"
           ELSE IF msg.parts[1].kind = "text" THEN "Starting new turn. TEXT"
           ELSE "Starting new turn. TOOL_RESPONSE", <<>>),
       Log("Sending API request", <<>>) >>

\* Lines 602-614: the lines written for a response before the token is looked
\* at; JSON.stringify(resp) quotes the text of every part, thoughts included.
RawResponseLog(first, resp) ==
    (IF first THEN <<Log("Stream connected", <<>>)>> ELSE <<>>)
       \o << Log("RAW_RESPONSE", <<>>), Log("RAW_RESPONSE_CHUNK", JoinText(resp)) >>

\* Lines 620-640: the line that says what the response carried.
ModelResponseLog(resp) ==
    IF Len(resp) > 0 /\ resp[1].thought
    THEN Log("Model Response: THOUGHT", resp[1].text)
    ELSE IF getResponseText(resp) # <<>>
    THEN Log("Model Response: TEXT", getResponseText(resp))
    ELSE IF CallsOf(resp) # <<>>
    THEN Log("Model Response: TOOL_CALL(S)", <<>>)
    ELSE Log("Model Response: no text or tool calls", <<>>)

\* Mutant of WriteText: the text computed for the log is written as well.
WriteTextTwice(out, resp) ==
    IF getResponseText(resp) # <<>>
    THEN out \o <<Write(getResponseText(resp)), Write(getResponseText(resp))>>
    ELSE out

\* Lines 642-645: the text of a response, if any, is written to stdout.
WriteText(out, resp) ==
    IF getResponseText(resp) # <<>>
    THEN Append(out, Write(getResponseText(resp)))
    ELSE out

(***************************************************************************)
(* The turn loop: one action per segment of runNonInteractive between two  *)
(* awaits (JavaScript runs each segment to completion).                    *)
(***************************************************************************)
NoId == [id |-> "", synthesized |-> FALSE, name |-> "", ts |-> 0]
InitialMessage ==
    [role |-> "user", parts |-> <<[kind |-> "text", callId |-> NoId, name |-> ""]>>]
NotAborted == [pc |-> "", round |-> 0, chunk |-> 0, idx |-> 0, out |-> 0, err |-> 0]
Terminal == {"Done", "Cancelled", "ToolError", "ApiError"}

\* Responses of round r consumed so far, and calls received in the whole run.
ChunksOf(r) == SelectSeq(received, LAMBDA c : c.round = r)
RECURSIVE CallTotal(_)
CallTotal(streams) ==
    IF streams = <<>> THEN 0 ELSE Len(Head(streams)) + CallTotal(Tail(streams))

LoopInit ==
    /\ pc = "Sending"
    /\ round = 0
    /\ currentMessages = InitialMessage
    /\ functionCalls = <<>>
    /\ toolResponseParts = <<>>
    /\ fcIdx = 0
    /\ aborted = FALSE
    /\ stdout = <<>>
    /\ stderr = <<>>
    /\ exitCode = -1
    /\ telemetry = "unknown"
    /\ now = 0
    /\ streamOpen = FALSE
    /\ toolsRunning = 0
    /\ requests = <<>>
    /\ received = <<>>
    /\ issued = <<>>
    /\ dispatched = <<>>
    /\ results = <<>>
    /\ abortedAt = NotAborted

\* No call of shouldAutoApprove yet.
NoApproval == [asked |-> FALSE, enabled |-> FALSE, current |-> FALSE, legacy |-> FALSE]

ClassifierIdle ==
    command = <<>> /\ level = "" /\ legacyLevel = "" /\ autoApprove = NoApproval

\* No call of write_file.
NoParams == [schema |-> FALSE, file_path |-> "", append |-> FALSE, prepend |-> FALSE]

\* The front end is not under analysis: the process was started from a
\* terminal without a question.
CliIdle ==
    /\ launch = [stdinIsTTY |-> "true", question |-> "", settings |-> {}, pc |-> "idle",
                 mode |-> "", excludeTools |-> {}, executed |-> {}, exit |-> -1]
    /\ overwrite = [pc |-> "idle", content |-> "none", proposed |-> "none",
                    reported |-> "none", disk |-> "none"]
    /\ hook = [active |-> FALSE, kitty |-> FALSE, kittySequenceBuffer |-> <<>>,
               isPaste |-> FALSE, pasteBuffer |-> <<>>, delivered |-> <<>>,
               received |-> <<>>]
    /\ setup = [pc |-> "idle", file |-> "absent", content |-> "none", backup |-> "none",
                previous |-> "none", rewritten |-> FALSE, result |-> "", edits |-> 0]

WriteIdle ==
    /\ approvalMode = "DEFAULT"
    /\ target = "absent"
    /\ changes = 0
    /\ writeCalls = 0
    /\ writePc = "idle"
    /\ params = NoParams
    /\ requested = FALSE
    /\ outcome = ""
    /\ confirmations = {}
    /\ writes = {}

\* finally { if (isTelemetrySdkInitialized()) await shutdownTelemetry(); }
Finally == \E initialized \in BOOLEAN :
              telemetry' = IF initialized THEN "shutdown" ELSE "off"

\* process.exit(1) ends the process inside try: the finally block is not run.
ProcessExit ==
    /\ exitCode' = 1
    /\ \E initialized \in BOOLEAN : telemetry' = IF initialized THEN "on" ELSE "off"

\* Lines 561-597: the lines about the new turn, a fresh call list, then the
\* request with the pending parts.
SendMessageStream(msg) ==
    /\ stdout' = stdout \o TurnLog(msg)
    /\ functionCalls' = <<>>
    /\ requests' = Append(requests, msg)
    /\ round' = round + 1
    /\ streamOpen' = TRUE
    /\ pc' = "Streaming"

\* Mutant of ExecuteToolCall: the call is started without the previous one
\* having been awaited.
ExecuteToolCallNoAwait(calls, k, running) ==
    /\ \E t \in (IF calls[k].id = Undefined THEN {now, now + 1} ELSE {now}) :
          /\ now' = t
          /\ dispatched' = Append(dispatched,
                 [round |-> round, idx |-> k, req |-> RequestInfo(calls[k], t),
                  signalAborted |-> aborted])
    /\ toolsRunning' = toolsRunning + 1
    /\ fcIdx' = k
    /\ pc' = "ExecutingTools"

\* Lines 654-668: the request for the k-th call and the await of its result.
\* Date.now() is read only when the model supplied no id.
ExecuteToolCall(calls, k, running) ==
    /\ \E t \in (IF calls[k].id = Undefined THEN {now, now + 1} ELSE {now}) :
          /\ now' = t
          /\ dispatched' = Append(dispatched,
                 [round |-> round, idx |-> k, req |-> RequestInfo(calls[k], t),
                  signalAborted |-> aborted])
    /\ toolsRunning' = running + 1
    /\ fcIdx' = k
    /\ pc' = "ExecutingTools"

\* Mutant of SignalAborted: the token is not looked at.
SignalAbortedIgnored == FALSE

\* Line 616: abortController.signal.aborted
SignalAborted == aborted

\* The first pass of while (true): the caller-supplied message is sent.
StartTurn ==
    /\ pc = "Sending"
    /\ SendMessageStream(currentMessages)
    /\ UNCHANGED <<currentMessages, toolResponseParts, fcIdx, aborted,
                   stderr, exitCode, telemetry, now, toolsRunning, dispatched,
                   results, received, issued, abortedAt, classifierVars, writeVars, cliVars>>

\* Lines 601-649: the body of for await, for one response of the stream.
ReceiveChunk(resp) ==
    /\ pc = "Streaming"
    /\ Len(received) < MaxChunks
    /\ CallTotal(issued) + Len(functionCalls) + Len(CallsOf(resp)) <= MaxCalls
    /\ IF SignalAborted
       THEN /\ stdout' = stdout \o RawResponseLog(ChunksOf(round) = <<>>, resp)
            /\ stderr' = Append(stderr, "Operation cancelled.")
            /\ pc' = "Cancelled"
            /\ exitCode' = 0
            /\ streamOpen' = FALSE
            /\ Finally
            /\ UNCHANGED <<functionCalls, received>>
       ELSE /\ stdout' = WriteText(
                            Append(stdout \o RawResponseLog(ChunksOf(round) = <<>>, resp),
                                   ModelResponseLog(resp)),
                            resp)
            /\ functionCalls' = functionCalls \o CallsOf(resp)
            /\ received' = Append(received, [round |-> round, resp |-> resp])
            /\ UNCHANGED <<stderr, pc, exitCode, streamOpen, telemetry>>
    /\ UNCHANGED <<round, currentMessages, toolResponseParts, fcIdx, aborted, now,
                   toolsRunning, requests, dispatched, results, issued, abortedAt,
                   classifierVars, writeVars, cliVars>>

\* Mutant of StreamEnd: a turn without calls does not return; the loop waits
\* for input that never comes.
StreamEndKeepsWaiting ==
    /\ pc = "Streaming"
    /\ streamOpen' = FALSE
    /\ issued' = Append(issued, functionCalls)
    /\ IF Len(functionCalls) > 0
       THEN /\ toolResponseParts' = <<>>
            /\ ExecuteToolCall(functionCalls, 1, toolsRunning)
            /\ UNCHANGED <<stdout, exitCode, telemetry>>
       ELSE /\ stdout' = Append(stdout, Write(<<"\n">>))
            /\ pc' = "Waiting"
            /\ UNCHANGED <<toolResponseParts, now, dispatched, toolsRunning, fcIdx,
                           exitCode, telemetry>>
    /\ UNCHANGED <<round, currentMessages, functionCalls, aborted, stderr,
                   requests, received, results, abortedAt, classifierVars, writeVars, cliVars>>

\* Lines 651-668 and 696-699: the stream is exhausted.
StreamEnd ==
    /\ pc = "Streaming"
    /\ streamOpen' = FALSE
    /\ issued' = Append(issued, functionCalls)
    /\ IF Len(functionCalls) > 0
       THEN /\ toolResponseParts' = <<>>
            /\ ExecuteToolCall(functionCalls, 1, toolsRunning)
            /\ UNCHANGED <<stdout, exitCode, telemetry>>
       ELSE /\ stdout' = Append(stdout, Write(<<"\n">>))
            /\ pc' = "Done"
            /\ exitCode' = 0
            /\ Finally
            /\ UNCHANGED <<toolResponseParts, now, dispatched, toolsRunning, fcIdx>>
    /\ UNCHANGED <<round, currentMessages, functionCalls, aborted, stderr,
                   requests, received, results, abortedAt, classifierVars, writeVars, cliVars>>

\* Lines 670-695: executeToolCall resolved with res.
ToolReturn(res) ==
    /\ pc = "ExecutingTools"
    /\ res \in ToolResults(dispatched[Len(dispatched)].req)
    /\ stderr' = IF res.error # NoError
                 THEN Append(stderr, "Error executing tool")
                 ELSE stderr
    /\ results' = Append(results, [round |-> round, idx |-> fcIdx, res |-> res])
    /\ IF res.error # NoError /\ ~isToolNotFound(res)
       THEN /\ pc' = "ToolError"
            /\ ProcessExit
            /\ toolsRunning' = toolsRunning - 1
            /\ UNCHANGED <<toolResponseParts, fcIdx, now, dispatched,
                           currentMessages, functionCalls, requests, round,
                           streamOpen, stdout>>
       ELSE /\ toolResponseParts' = CollectParts(toolResponseParts, res)
            /\ UNCHANGED <<exitCode, telemetry>>
            /\ IF fcIdx < Len(functionCalls)
               THEN /\ ExecuteToolCall(functionCalls, fcIdx + 1, toolsRunning - 1)
                    /\ UNCHANGED <<currentMessages, functionCalls, requests,
                                   round, streamOpen, stdout>>
               ELSE /\ currentMessages' =
                           [role |-> "user", parts |-> toolResponseParts']
                    /\ SendMessageStream(currentMessages')
                    /\ toolsRunning' = toolsRunning - 1
                    /\ UNCHANGED <<fcIdx, now, dispatched>>
    /\ UNCHANGED <<aborted, received, issued, abortedAt, classifierVars, writeVars, cliVars>>

\* Lines 701-708: the stream (or the request) fails; catch formats the error
\* and process.exit(1) ends the process at once.
StreamFail ==
    /\ pc = "Streaming"
    /\ stderr' = Append(stderr, "API error")
    /\ pc' = "ApiError"
    /\ ProcessExit
    /\ streamOpen' = FALSE
    /\ UNCHANGED <<round, currentMessages, functionCalls, toolResponseParts,
                   fcIdx, aborted, stdout, now, toolsRunning, requests,
                   dispatched, results, received, issued, abortedAt,
                   classifierVars, writeVars, cliVars>>

\* The cancellation token is signaled while the loop is suspended in an await.
Cancel ==
    /\ pc \in {"Streaming", "ExecutingTools"}
    /\ ~aborted
    /\ aborted' = TRUE
    /\ abortedAt' = [pc |-> pc, round |-> round, chunk |-> Len(ChunksOf(round)),
                     idx |-> IF pc = "ExecutingTools" THEN fcIdx ELSE 0,
                     out |-> Len(stdout), err |-> Len(stderr)]
    /\ UNCHANGED <<pc, round, currentMessages, functionCalls, toolResponseParts,
                   fcIdx, stdout, stderr, exitCode, telemetry, now, streamOpen,
                   toolsRunning, requests, dispatched, results, received, issued,
                   classifierVars, writeVars, cliVars>>

Init == LoopInit /\ ClassifierIdle /\ WriteIdle /\ CliIdle

Next ==
    \/ StartTurn
    \/ \E resp \in Chunk : ReceiveChunk(resp)
    \/ StreamEnd
    \/ \E d \in {dispatched[i] : i \in DOMAIN dispatched} :
          \E res \in ToolResults(d.req) : ToolReturn(res)
    \/ StreamFail
    \/ Cancel

Spec == Init /\ [][Next]_vars

\* The loop under the scheduling the runtime gives it: a pending request is
\* sent, an open stream yields, ends or fails, and a running tool call
\* returns.  The token may be signaled or not.
FairSpec ==
    /\ Spec
    /\ WF_vars(StartTurn)
    /\ WF_vars((\E resp \in Chunk : ReceiveChunk(resp)) \/ StreamEnd \/ StreamFail)
    /\ WF_vars(\E d \in {dispatched[i] : i \in DOMAIN dispatched} :
                  \E res \in ToolResults(d.req) : ToolReturn(res))

(***************************************************************************)
(* JavaScript values the classifier handles                                *)
(***************************************************************************)
Undef == [t |-> "undefined"]
Str(x) == [t |-> "string", s |-> x]
Obj(m) == [t |-> "object", m |-> m]
Fn == [t |-> "function"]

Safe == Str("safe")
RequiresApproval == Str("requires-approval")
Dangerous == Str("dangerous")
AnalyzeNested == Str("analyze-nested-command")

\* Properties every object literal and every function inherits from
\* Object.prototype; each of them is a function.
InheritedKeys == {"constructor", "toString", "valueOf", "hasOwnProperty"}

\* v[k]: an own property, else the inherited one, else undefined.
Get(v, k) ==
    IF v.t = "object" /\ k \in DOMAIN v.m THEN v.m[k]
    ELSE IF v.t \in {"object", "function"} /\ k \in InheritedKeys THEN Fn
    ELSE Undef

Truthy(v) == v.t # "undefined" /\ ~(v.t = "string" /\ v.s = "")

(***************************************************************************)
(* The command safety database                                             *)
(***************************************************************************)
commandSafety ==
    Obj(
           "ls" :> Str("safe") @@ "ll" :> Str("safe") @@ "la" :> Str("safe")
        @@ "dir" :> Str("safe") @@ "cat" :> Str("safe")
        @@ "less" :> Str("safe") @@ "more" :> Str("safe")
        @@ "head" :> Str("safe") @@ "tail" :> Str("safe")
        @@ "pwd" :> Str("safe") @@ "whoami" :> Str("safe")
        @@ "id" :> Str("safe") @@ "file" :> Str("safe")
        @@ "stat" :> Str("safe") @@ "tree" :> Str("safe")
        @@ "locate" :> Str("safe") @@ "which" :> Str("safe")
        @@ "whereis" :> Str("safe")
        @@ "find" :> Obj(
               "-name" :> Str("safe") @@ "-type" :> Str("safe")
            @@ "-size" :> Str("safe") @@ "-mtime" :> Str("safe")
            @@ "-user" :> Str("safe") @@ "-group" :> Str("safe")
            @@ "-perm" :> Str("safe") @@ "-ls" :> Str("safe")
            @@ "-print" :> Str("safe") @@ "-printf" :> Str("safe")
            @@ "-delete" :> Str("dangerous")
            @@ "-exec" :> Str("requires-approval")
            @@ "-execdir" :> Str("requires-approval")
            @@ "*" :> Str("requires-approval"))
        @@ "du" :> Str("safe") @@ "df" :> Str("safe") @@ "grep" :> Str("safe")
        @@ "egrep" :> Str("safe") @@ "fgrep" :> Str("safe")
        @@ "sort" :> Str("safe") @@ "uniq" :> Str("safe")
        @@ "wc" :> Str("safe") @@ "cut" :> Str("safe") @@ "awk" :> Str("safe")
        @@ "diff" :> Str("safe") @@ "cmp" :> Str("safe")
        @@ "strings" :> Str("safe")
        @@ "sed" :> Obj(
               "-i" :> Str("requires-approval")
            @@ "--in-place" :> Str("requires-approval") @@ "*" :> Str("safe"))
        @@ "git" :> Obj(
               "status" :> Str("safe") @@ "log" :> Str("safe")
            @@ "show" :> Str("safe") @@ "diff" :> Str("safe")
            @@ "ls-files" :> Str("safe") @@ "remote" :> Str("safe")
            @@ "config" :> Obj(
                   "--list" :> Str("safe") @@ "--get" :> Str("safe")
                @@ "--global" :> Str("requires-approval")
                @@ "--system" :> Str("dangerous")
                @@ "*" :> Str("requires-approval"))
            @@ "branch" :> Obj(
                   "-l" :> Str("safe") @@ "--list" :> Str("safe")
                @@ "-a" :> Str("safe") @@ "-r" :> Str("safe")
                @@ "-d" :> Str("requires-approval") @@ "-D" :> Str("dangerous")
                @@ "-m" :> Str("requires-approval")
                @@ "*" :> Str("requires-approval"))
            @@ "add" :> Str("requires-approval")
            @@ "commit" :> Str("requires-approval")
            @@ "checkout" :> Str("requires-approval")
            @@ "switch" :> Str("requires-approval")
            @@ "merge" :> Str("requires-approval")
            @@ "pull" :> Str("requires-approval") @@ "fetch" :> Str("safe")
            @@ "push" :> Str("requires-approval")
            @@ "tag" :> Str("requires-approval")
            @@ "stash" :> Str("requires-approval")
            @@ "reset" :> Obj(
                   "--soft" :> Str("requires-approval")
                @@ "--mixed" :> Str("requires-approval")
                @@ "--hard" :> Str("dangerous")
                @@ "*" :> Str("requires-approval"))
            @@ "clean" :> Obj(
                   "-n" :> Str("safe") @@ "--dry-run" :> Str("safe")
                @@ "-f" :> Str("dangerous") @@ "-fd" :> Str("dangerous")
                @@ "-fx" :> Str("dangerous") @@ "*" :> Str("requires-approval"))
            @@ "rm" :> Str("requires-approval")
            @@ "mv" :> Str("requires-approval")
            @@ "rebase" :> Str("requires-approval")
            @@ "cherry-pick" :> Str("requires-approval"))
        @@ "ps" :> Str("safe") @@ "top" :> Str("safe") @@ "htop" :> Str("safe")
        @@ "uptime" :> Str("safe") @@ "date" :> Str("safe")
        @@ "uname" :> Str("safe") @@ "lsb_release" :> Str("safe")
        @@ "env" :> Str("safe") @@ "printenv" :> Str("safe")
        @@ "history" :> Str("safe") @@ "jobs" :> Str("safe")
        @@ "ping" :> Str("safe") @@ "nslookup" :> Str("safe")
        @@ "dig" :> Str("safe") @@ "netstat" :> Str("safe")
        @@ "ss" :> Str("safe")
        @@ "curl" :> Obj(
               "-X" :> Obj(
                   "GET" :> Str("safe") @@ "POST" :> Str("requires-approval")
                @@ "PUT" :> Str("requires-approval")
                @@ "DELETE" :> Str("requires-approval")
                @@ "PATCH" :> Str("requires-approval")
                @@ "*" :> Str("requires-approval"))
            @@ "--request" :> Obj(
                   "GET" :> Str("safe") @@ "POST" :> Str("requires-approval")
                @@ "PUT" :> Str("requires-approval")
                @@ "DELETE" :> Str("requires-approval")
                @@ "PATCH" :> Str("requires-approval")
                @@ "*" :> Str("requires-approval"))
            @@ "-I" :> Str("safe") @@ "--head" :> Str("safe")
            @@ "-d" :> Str("requires-approval")
            @@ "--data" :> Str("requires-approval")
            @@ "-F" :> Str("requires-approval")
            @@ "--form" :> Str("requires-approval")
            @@ "-u" :> Str("requires-approval")
            @@ "--user" :> Str("requires-approval") @@ "-H" :> Str("safe")
            @@ "--header" :> Str("safe") @@ "-o" :> Str("requires-approval")
            @@ "--output" :> Str("requires-approval") @@ "-L" :> Str("safe")
            @@ "--location" :> Str("safe") @@ "*" :> Str("safe"))
        @@ "wget" :> Obj(
               "--spider" :> Str("safe") @@ "--dry-run" :> Str("safe")
            @@ "-O" :> Str("requires-approval")
            @@ "--output-document" :> Str("requires-approval")
            @@ "*" :> Str("requires-approval"))
        @@ "cp" :> Str("requires-approval") @@ "mv" :> Str("requires-approval")
        @@ "mkdir" :> Str("requires-approval")
        @@ "rmdir" :> Str("requires-approval")
        @@ "touch" :> Str("requires-approval")
        @@ "ln" :> Str("requires-approval")
        @@ "chmod" :> Obj(
               "-R" :> Str("dangerous") @@ "--recursive" :> Str("dangerous")
            @@ "*" :> Str("requires-approval"))
        @@ "chown" :> Obj(
               "-R" :> Str("dangerous") @@ "--recursive" :> Str("dangerous")
            @@ "*" :> Str("requires-approval"))
        @@ "npm" :> Obj(
               "list" :> Str("safe") @@ "ls" :> Str("safe")
            @@ "view" :> Str("safe") @@ "info" :> Str("safe")
            @@ "search" :> Str("safe") @@ "install" :> Str("requires-approval")
            @@ "uninstall" :> Str("requires-approval")
            @@ "update" :> Str("requires-approval")
            @@ "run" :> Str("requires-approval")
            @@ "start" :> Str("requires-approval")
            @@ "test" :> Str("requires-approval")
            @@ "build" :> Str("requires-approval")
            @@ "*" :> Str("requires-approval"))
        @@ "pip" :> Obj(
               "list" :> Str("safe") @@ "show" :> Str("safe")
            @@ "search" :> Str("safe") @@ "install" :> Str("requires-approval")
            @@ "uninstall" :> Str("requires-approval")
            @@ "upgrade" :> Str("requires-approval")
            @@ "*" :> Str("requires-approval"))
        @@ "apt" :> Obj(
               "list" :> Str("safe") @@ "search" :> Str("safe")
            @@ "show" :> Str("safe") @@ "policy" :> Str("safe")
            @@ "install" :> Str("requires-approval")
            @@ "remove" :> Str("dangerous") @@ "purge" :> Str("dangerous")
            @@ "update" :> Str("requires-approval")
            @@ "upgrade" :> Str("requires-approval")
            @@ "autoremove" :> Str("dangerous")
            @@ "*" :> Str("requires-approval"))
        @@ "brew" :> Obj(
               "list" :> Str("safe") @@ "search" :> Str("safe")
            @@ "info" :> Str("safe") @@ "deps" :> Str("safe")
            @@ "install" :> Str("requires-approval")
            @@ "uninstall" :> Str("requires-approval")
            @@ "update" :> Str("requires-approval")
            @@ "upgrade" :> Str("requires-approval")
            @@ "*" :> Str("requires-approval"))
        @@ "make" :> Str("requires-approval")
        @@ "cmake" :> Str("requires-approval")
        @@ "gcc" :> Str("requires-approval")
        @@ "g++" :> Str("requires-approval")
        @@ "javac" :> Str("requires-approval")
        @@ "python" :> Str("requires-approval")
        @@ "python3" :> Str("requires-approval")
        @@ "node" :> Str("requires-approval")
        @@ "docker" :> Obj(
               "ps" :> Str("safe") @@ "images" :> Str("safe")
            @@ "version" :> Str("safe") @@ "info" :> Str("safe")
            @@ "logs" :> Str("safe") @@ "inspect" :> Str("safe")
            @@ "build" :> Str("requires-approval")
            @@ "run" :> Str("requires-approval")
            @@ "exec" :> Str("requires-approval")
            @@ "start" :> Str("requires-approval")
            @@ "stop" :> Str("requires-approval")
            @@ "restart" :> Str("requires-approval")
            @@ "kill" :> Str("dangerous") @@ "rm" :> Str("requires-approval")
            @@ "rmi" :> Str("requires-approval")
            @@ "pull" :> Str("requires-approval")
            @@ "push" :> Str("requires-approval")
            @@ "*" :> Str("requires-approval"))
        @@ "rm" :> Obj(
               "-rf" :> Str("dangerous") @@ "-r" :> Str("dangerous")
            @@ "-f" :> Str("dangerous") @@ "--recursive" :> Str("dangerous")
            @@ "--force" :> Str("dangerous") @@ "*" :> Str("requires-approval"))
        @@ "shred" :> Str("dangerous") @@ "dd" :> Str("dangerous")
        @@ "sudo" :> Str("dangerous") @@ "su" :> Str("dangerous")
        @@ "shutdown" :> Str("dangerous") @@ "reboot" :> Str("dangerous")
        @@ "halt" :> Str("dangerous") @@ "poweroff" :> Str("dangerous")
        @@ "kill" :> Str("requires-approval") @@ "killall" :> Str("dangerous")
        @@ "pkill" :> Str("dangerous") @@ "iptables" :> Str("dangerous")
        @@ "ufw" :> Str("dangerous") @@ "firewall-cmd" :> Str("dangerous")
        @@ "ssh-keygen" :> Str("requires-approval")
        @@ "openssl" :> Str("requires-approval")
        @@ "gpg" :> Str("requires-approval")
        @@ "timeout" :> Obj(
               "*" :> Str("analyze-nested-command"))
        @@ "xargs" :> Obj(
               "*" :> Str("analyze-nested-command"))
        @@ "watch" :> Obj(
               "*" :> Str("analyze-nested-command"))
        @@ "nano" :> Str("requires-approval")
        @@ "vim" :> Str("requires-approval")
        @@ "vi" :> Str("requires-approval")
        @@ "emacs" :> Str("requires-approval")
        @@ "code" :> Str("requires-approval")
        @@ "tar" :> Obj(
               "-t" :> Str("safe") @@ "--list" :> Str("safe")
            @@ "-x" :> Str("requires-approval")
            @@ "--extract" :> Str("requires-approval")
            @@ "-c" :> Str("requires-approval")
            @@ "--create" :> Str("requires-approval")
            @@ "*" :> Str("requires-approval"))
        @@ "zip" :> Str("requires-approval")
        @@ "unzip" :> Obj(
               "-l" :> Str("safe") @@ "*" :> Str("requires-approval"))
        @@ "gzip" :> Str("requires-approval")
        @@ "gunzip" :> Str("requires-approval"))

(***************************************************************************)
(* Command strings.  A command is a sequence of lexemes: a token (a        *)
(* maximal run of non-blank characters) or one blank " "; two tokens are   *)
(* never adjacent.  Chars gives the characters of a token or a literal.    *)
(***************************************************************************)
Chars ==
       "ls" :> <<"l", "s">>
    @@ "rm" :> <<"r", "m">>
    @@ "git" :> <<"g", "i", "t">>
    @@ "status" :> <<"s", "t", "a", "t", "u", "s">>
    @@ "reset" :> <<"r", "e", "s", "e", "t">>
    @@ "--hard" :> <<"-", "-", "h", "a", "r", "d">>
    @@ "timeout" :> <<"t", "i", "m", "e", "o", "u", "t">>
    @@ "30" :> <<"3", "0">>
    @@ "xargs" :> <<"x", "a", "r", "g", "s">>
    @@ "watch" :> <<"w", "a", "t", "c", "h">>
    @@ "-rf" :> <<"-", "r", "f">>
    @@ "/tmp/x" :> <<"/", "t", "m", "p", "/", "x">>
    @@ "|" :> <<"|">>
    @@ "sh" :> <<"s", "h">>
    @@ "foo" :> <<"f", "o", "o">>
    @@ "push" :> <<"p", "u", "s", "h">>
    @@ "--soft" :> <<"-", "-", "s", "o", "f", "t">>
    @@ "constructor" :> <<"c", "o", "n", "s", "t", "r", "u", "c", "t", "o", "r">>
    @@ "-r" :> <<"-", "r">>
    @@ "/" :> <<"/">>
    @@ "-f" :> <<"-", "f">>
    @@ "*" :> <<"*">>
    @@ "sudo" :> <<"s", "u", "d", "o">>
    @@ "chmod" :> <<"c", "h", "m", "o", "d">>
    @@ "777" :> <<"7", "7", "7">>
    @@ "curl" :> <<"c", "u", "r", "l">>
    @@ "wget" :> <<"w", "g", "e", "t">>
    @@ "bash" :> <<"b", "a", "s", "h">>
    @@ ">" :> <<">">>
    @@ "/dev/null" :> <<"/", "d", "e", "v", "/", "n", "u", "l", "l">>
    @@ "/usr" :> <<"/", "u", "s", "r">>
    @@ "/etc" :> <<"/", "e", "t", "c">>
    @@ "/var" :> <<"/", "v", "a", "r">>
    @@ "/sys" :> <<"/", "s", "y", "s">>
    @@ "/proc" :> <<"/", "p", "r", "o", "c">>
    @@ "/boot" :> <<"/", "b", "o", "o", "t">>
    @@ "del" :> <<"d", "e", "l">>
    @@ "rmdir" :> <<"r", "m", "d", "i", "r">>
    @@ "shred" :> <<"s", "h", "r", "e", "d">>
    @@ "--force" :> <<"-", "-", "f", "o", "r", "c", "e">>
    @@ "delete" :> <<"d", "e", "l", "e", "t", "e">>
    @@ "-" :> <<"-">>
    @@ " " :> <<" ">>
    @@ "cp" :> <<"c", "p">>
    @@ ";" :> <<";">>
    @@ ">/dev/null" :> <<">", "/", "d", "e", "v", "/", "n", "u", "l", "l">>
    @@ "unzip" :> <<"u", "n", "z", "i", "p">>
    @@ "-l" :> <<"-", "l">>
    @@ "-X" :> <<"-", "X">>
    @@ "GET" :> <<"G", "E", "T">>

Vocabulary ==
    {"ls", "rm", "git", "status", "reset", "--hard", "timeout", "30", "xargs", "watch", "-rf", "/tmp/x", "|", "sh", "foo", "constructor",
     "push"}

MaxTokens == 3      \* tokens of a command

RECURSIVE Text(_)
Text(cmd) == IF cmd = <<>> THEN <<>> ELSE Chars[Head(cmd)] \o Text(Tail(cmd))

IsBlank(x) == x = " "

\* String.prototype.trim
RECURSIVE TrimStart(_)
TrimStart(cmd) ==
    IF cmd # <<>> /\ IsBlank(Head(cmd)) THEN TrimStart(Tail(cmd)) ELSE cmd
RECURSIVE TrimEnd(_)
TrimEnd(cmd) ==
    IF cmd # <<>> /\ IsBlank(cmd[Len(cmd)])
    THEN TrimEnd(SubSeq(cmd, 1, Len(cmd) - 1))
    ELSE cmd
Trim(cmd) == TrimEnd(TrimStart(cmd))

\* split(/\s+/) of a trimmed, non-empty command
Split(cmd) == SelectSeq(cmd, LAMBDA x : ~IsBlank(x))

\* join(' ')
RECURSIVE Join(_)
Join(parts) ==
    IF Len(parts) = 0 THEN <<>>
    ELSE IF Len(parts) = 1 THEN <<parts[1]>>
    ELSE <<parts[1], " ">> \o Join(Tail(parts))

StartsWithDash(part) == Chars[part][1] = "-"

\* The literal lit stands at position i of the characters s.
LitAt(s, i, lit) ==
    LET l == Chars[lit]
    IN /\ i >= 1
       /\ i + Len(l) - 1 <= Len(s)
       /\ s[i] = l[1]
       /\ \A j \in 2..Len(l) : s[i + j - 1] = l[j]

\* The positions of s where the literal lit stands.
At(s, lit) ==
    LET first == Chars[lit][1]
    IN {i \in 1..Len(s) : s[i] = first /\ LitAt(s, i, lit)}

\* String.prototype.includes, and RegExp.test for a literal
Includes(s, lit) == At(s, lit) # {}

\* The characters a..b of s are all blank (\s* between two positions).
Blanks(s, a, b) == \A j \in a..b : s[j] = " "

\* /rm\s+.*FLAG.*END/ for the patterns /rm\s+.*-r.*\// and /rm\s+.*-f.*\*/
RmThen(s, flag, end) ==
    \E i \in At(s, "rm") :
       /\ i + 2 <= Len(s) /\ s[i + 2] = " "
       /\ \E j \in At(s, flag) :
             /\ j >= i + 3
             /\ \E k \in At(s, end) : k >= j + 2

\* /sudo\s+.*rm/
SudoRm(s) ==
    \E i \in At(s, "sudo") :
       /\ i + 4 <= Len(s) /\ s[i + 4] = " "
       /\ \E j \in At(s, "rm") : j >= i + 5

\* /chmod\s+777/
Chmod777(s) ==
    \E i \in At(s, "chmod") :
       \E j \in At(s, "777") : j >= i + 6 /\ Blanks(s, i + 5, j - 1)

\* /FIRST\s*SECOND/ for /\|\s*sh/ and />\s*\/dev\/null/
ThenAfterBlanks(s, first, second) ==
    \E i \in At(s, first) :
       \E j \in At(s, second) :
          /\ j >= i + Len(Chars[first])
          /\ Blanks(s, i + Len(Chars[first]), j - 1)

\* /TOOL.*\|\s*bash/ for curl and wget
PipedToBash(s, tool) ==
    \E i \in At(s, tool) :
       \E p \in At(s, "|") :
          /\ p >= i + Len(Chars[tool])
          /\ \E j \in At(s, "bash") : j >= p + 1 /\ Blanks(s, p + 1, j - 1)

systemPaths == <<"/", "/usr", "/etc", "/var", "/sys", "/proc", "/boot">>
destructiveCommands == <<"rm", "del", "rmdir", "shred">>

(***************************************************************************)
(* Operators shared by both implementations                                *)
(***************************************************************************)
\* hierarchy[level]: undefined for anything but the three levels
Hierarchy(v) ==
    IF v = Safe THEN 0
    ELSE IF v = RequiresApproval THEN 1
    ELSE IF v = Dangerous THEN 2
    ELSE -1

\* hierarchy[level1] >= hierarchy[level2] ? level1 : level2; a comparison
\* with undefined is false.
getMostRestrictiveSafetyLevel(level1, level2) ==
    IF Hierarchy(level1) >= 0 /\ Hierarchy(level2) >= 0
       /\ Hierarchy(level1) >= Hierarchy(level2)
    THEN level1
    ELSE level2

\* A variant that raises every level straight to the ceiling.
escalateSafetyLevelToCeiling(currentLevel) ==
    IF currentLevel \in {Safe, RequiresApproval, Dangerous} THEN Dangerous
    ELSE RequiresApproval

escalateSafetyLevel(currentLevel) ==
    IF currentLevel = Safe THEN RequiresApproval
    ELSE IF currentLevel = RequiresApproval THEN Dangerous
    ELSE IF currentLevel = Dangerous THEN Dangerous
    ELSE RequiresApproval

\* findIndex + 1, given for each position whether the predicate holds there:
\* the first position where it does, 0 when there is none.
FindIndex(hits) ==
    IF \E i \in DOMAIN hits : hits[i]
    THEN CHOOSE i \in DOMAIN hits : hits[i] /\ \A j \in 1..(i - 1) : ~hits[j]
    ELSE 0

(***************************************************************************)
(* The current implementation                                             *)
(***************************************************************************)
performAdditionalSafetyChecks(cmd, currentSafety) ==
    LET s == Text(cmd)
    IN IF \/ RmThen(s, "-r", "/")
          \/ RmThen(s, "-f", "*")
          \/ SudoRm(s)
          \/ Chmod777(s)
          \/ ThenAfterBlanks(s, "|", "sh")
          \/ PipedToBash(s, "curl")
          \/ PipedToBash(s, "wget")
       THEN Dangerous
       ELSE IF /\ \E p \in DOMAIN systemPaths : Includes(s, systemPaths[p])
               /\ \E c \in DOMAIN destructiveCommands :
                     Includes(s, destructiveCommands[c])
       THEN Dangerous
       ELSE IF /\ Includes(s, "--force") \/ Includes(s, "-f")
               /\ Includes(s, "rm") \/ Includes(s, "delete") \/ Includes(s, "del")
       THEN escalateSafetyLevel(currentSafety)
       ELSE IF ThenAfterBlanks(s, ">", "/dev/null") /\ currentSafety = Safe
       THEN RequiresApproval
       ELSE currentSafety

\* The level a matched flag contributes (lines 173-192).
FlagSafety(flagConfig) ==
    IF flagConfig.t = "string"
    THEN IF flagConfig = AnalyzeNested THEN RequiresApproval ELSE flagConfig
    ELSE LET wildcardConfig == Get(flagConfig, "*")
         IN IF wildcardConfig.t = "string" /\ wildcardConfig # AnalyzeNested
            THEN wildcardConfig
            ELSE RequiresApproval

\* The loop over the flags (lines 169-197).
RECURSIVE ScanFlags(_, _, _)
ScanFlags(config, flags, safetyLevel) ==
    IF flags = <<>> THEN safetyLevel
    ELSE LET flagConfig == Get(config, Head(flags))
         IN ScanFlags(config, Tail(flags),
               IF flagConfig # Undef
               THEN getMostRestrictiveSafetyLevel(safetyLevel, FlagSafety(flagConfig))
               ELSE safetyLevel)

RECURSIVE analyzeSafety(_), analyzeNestedCommand(_), analyzeNestedStructure(_, _, _)

analyzeNestedCommand(parts) ==
    IF Len(parts) = 0 THEN RequiresApproval
    ELSE LET mainCommand == parts[1]
             commandIndex ==
                 FindIndex([index \in DOMAIN parts |->
                               index > 1 /\ ~StartsWithDash(parts[index])])
         IN IF mainCommand = "timeout"
            THEN IF Len(parts) >= 3
                 THEN analyzeSafety(Join(SubSeq(parts, 3, Len(parts))))
                 ELSE RequiresApproval
            ELSE IF mainCommand = "xargs"
            THEN IF commandIndex > 1
                 THEN escalateSafetyLevel(
                         analyzeSafety(Join(SubSeq(parts, commandIndex, Len(parts)))))
                 ELSE RequiresApproval
            ELSE IF mainCommand = "watch"
            THEN IF commandIndex > 1
                 THEN analyzeSafety(Join(SubSeq(parts, commandIndex, Len(parts))))
                 ELSE RequiresApproval
            ELSE RequiresApproval

analyzeNestedStructure(config, args, flags) ==
    IF config.t = "string"
    THEN IF config = AnalyzeNested THEN RequiresApproval ELSE config
    ELSE LET subConfig == IF Len(args) > 0 THEN Get(config, args[1]) ELSE Undef
             subFound == subConfig # Undef
             flagFound == \E i \in 1..Len(flags) : Get(config, flags[i]) # Undef
             wildcardConfig == Get(config, "*")
         IN IF subFound /\ subConfig = AnalyzeNested
            THEN analyzeNestedCommand(args)
            ELSE IF ~subFound /\ ~flagFound
            THEN IF wildcardConfig.t = "string"
                 THEN IF wildcardConfig = AnalyzeNested
                      THEN analyzeNestedCommand(args)
                      ELSE wildcardConfig
                 ELSE RequiresApproval
            ELSE ScanFlags(config, flags,
                    IF ~subFound THEN Safe
                    ELSE IF subConfig.t = "string" THEN subConfig
                    ELSE analyzeNestedStructure(subConfig, Tail(args), flags))

\* A variant that applies the heuristic checks to a terminal entry as well.
analyzeSafetyChecksTerminal(cmd) ==
    IF Len(cmd) = 0 \/ Len(Trim(cmd)) = 0
    THEN RequiresApproval
    ELSE LET parts == Split(Trim(cmd))
             commandConfig == Get(commandSafety, parts[1])
         IN IF ~Truthy(commandConfig)
            THEN RequiresApproval
            ELSE IF commandConfig = AnalyzeNested
            THEN analyzeNestedCommand(parts)
            ELSE performAdditionalSafetyChecks(Trim(cmd),
                    analyzeNestedStructure(commandConfig, Tail(parts),
                                           SelectSeq(parts, StartsWithDash)))

analyzeSafety(cmd) ==
    IF Len(cmd) = 0 \/ Len(Trim(cmd)) = 0
    THEN RequiresApproval
    ELSE LET trimmedCommand == Trim(cmd)
             parts == Split(trimmedCommand)
             mainCommand == parts[1]
             args == Tail(parts)
             flags == SelectSeq(parts, StartsWithDash)
             commandConfig == Get(commandSafety, mainCommand)
         IN IF ~Truthy(commandConfig)
            THEN RequiresApproval
            ELSE IF commandConfig.t = "string"
            THEN IF commandConfig = AnalyzeNested
                 THEN analyzeNestedCommand(parts)
                 ELSE commandConfig
            ELSE performAdditionalSafetyChecks(trimmedCommand,
                    analyzeNestedStructure(commandConfig, args, flags))

(***************************************************************************)
(* The historical implementation                                           *)
(***************************************************************************)
performAdditionalSafetyChecksLegacy(cmd, currentSafety) ==
    LET s == Text(cmd)
    IN IF \/ RmThen(s, "-r", "/")
          \/ RmThen(s, "-f", "*")
          \/ ThenAfterBlanks(s, ">", "/dev/null")
          \/ SudoRm(s)
          \/ Chmod777(s)
          \/ ThenAfterBlanks(s, "|", "sh")
          \/ PipedToBash(s, "curl")
       THEN Dangerous
       ELSE IF \E p \in DOMAIN systemPaths :
                  Includes(s, systemPaths[p]) /\ (Includes(s, "rm") \/ Includes(s, "del"))
       THEN Dangerous
       ELSE IF Includes(s, "--force") /\ (Includes(s, "rm") \/ Includes(s, "delete"))
       THEN escalateSafetyLevel(currentSafety)
       ELSE currentSafety

RECURSIVE checkFlagsForSafetyOverride(_, _, _)
checkFlagsForSafetyOverride(commandConfig, flags, currentSafety) ==
    IF flags = <<>> THEN currentSafety
    ELSE checkFlagsForSafetyOverride(commandConfig, Tail(flags),
            IF Truthy(Get(commandConfig, Head(flags)))
            THEN getMostRestrictiveSafetyLevel(currentSafety,
                                               Get(commandConfig, Head(flags)))
            ELSE currentSafety)

\* A variant that never looks at the arguments and the flags.
analyzeNestedSubcommandWildcardOnly(subConfig, remainingArgs, flags) ==
    IF Truthy(Get(subConfig, "*")) THEN Get(subConfig, "*") ELSE RequiresApproval

analyzeNestedSubcommand(subConfig, remainingArgs, flags) ==
    LET argAt == FindIndex([i \in DOMAIN remainingArgs |->
                               Truthy(Get(subConfig, remainingArgs[i]))])
        flagAt == FindIndex([i \in DOMAIN flags |-> Truthy(Get(subConfig, flags[i]))])
    IN IF argAt > 0 THEN Get(subConfig, remainingArgs[argAt])
       ELSE IF flagAt > 0 THEN Get(subConfig, flags[flagAt])
       ELSE IF Truthy(Get(subConfig, "*")) THEN Get(subConfig, "*")
       ELSE RequiresApproval

RECURSIVE analyzeSafetyLegacy(_)

analyzeNestedCommandLegacy(parts) ==
    LET mainCommand == parts[1]
        commandIndex(self) ==
            FindIndex([index \in DOMAIN parts |->
                          ~StartsWithDash(parts[index]) /\ parts[index] # self])
    IN IF mainCommand = "timeout"
       THEN IF Len(parts) >= 3
            THEN analyzeSafetyLegacy(Join(SubSeq(parts, 3, Len(parts))))
            ELSE RequiresApproval
       ELSE IF mainCommand = "xargs"
       THEN IF commandIndex("xargs") > 1
            THEN escalateSafetyLevel(
                    analyzeSafetyLegacy(
                       Join(SubSeq(parts, commandIndex("xargs"), Len(parts)))))
            ELSE RequiresApproval
       ELSE IF mainCommand = "watch"
       THEN IF commandIndex("watch") > 1
            THEN analyzeSafetyLegacy(
                    Join(SubSeq(parts, commandIndex("watch"), Len(parts))))
            ELSE RequiresApproval
       ELSE RequiresApproval

analyzeSafetyLegacy(cmd) ==
    IF Len(cmd) = 0 \/ Len(Trim(cmd)) = 0
    THEN RequiresApproval
    ELSE LET trimmedCommand == Trim(cmd)
             parts == Split(trimmedCommand)
             mainCommand == parts[1]
             hasSub == Len(parts) >= 2
             flags == SelectSeq(parts, StartsWithDash)
             arguments_array == Tail(parts)
             commandConfig == Get(commandSafety, mainCommand)
             subConfig == IF hasSub THEN Get(commandConfig, parts[2]) ELSE Undef
             safetyLevel ==
                 IF hasSub /\ Truthy(subConfig)
                 THEN IF subConfig.t = "string" THEN subConfig
                      ELSE IF subConfig.t = "object"
                      THEN analyzeNestedSubcommand(subConfig, Tail(arguments_array), flags)
                      ELSE Safe
                 ELSE IF Truthy(Get(commandConfig, "*"))
                 THEN Get(commandConfig, "*")
                 ELSE RequiresApproval
         IN IF ~Truthy(commandConfig)
            THEN RequiresApproval
            ELSE IF commandConfig.t = "string"
            THEN commandConfig
            ELSE IF Get(commandConfig, "*") = AnalyzeNested
            THEN analyzeNestedCommandLegacy(parts)
            ELSE performAdditionalSafetyChecksLegacy(trimmedCommand,
                    checkFlagsForSafetyOverride(commandConfig, flags, safetyLevel))

\* A variant that lets through everything that is not dangerous.
shouldAutoApproveUnlessDangerous(cmd, autoApproveEnabled) ==
    IF ~autoApproveEnabled THEN FALSE ELSE analyzeSafety(cmd) # Dangerous

\* shouldAutoApprove of the current and of the historical implementation
shouldAutoApprove(cmd, autoApproveEnabled) ==
    IF ~autoApproveEnabled THEN FALSE ELSE analyzeSafety(cmd) = Safe

shouldAutoApproveLegacy(cmd, autoApproveEnabled) ==
    IF ~autoApproveEnabled THEN FALSE ELSE analyzeSafetyLegacy(cmd) = Safe

(***************************************************************************)
(* The classifier as a state machine: a command is drawn, then each        *)
(* implementation is applied to it.                                        *)
(***************************************************************************)
\* What a caller sees of a returned value: the string, or the type of a value
\* that is no string.
Show(v) == IF v.t = "string" THEN v.s ELSE v.t

\* The ways a command is laid out: single blanks between the tokens, blanks
\* around the command as well, or runs of blanks between the tokens.
Layouts == {"tight", "padded", "wide"}

RECURSIVE Wide(_)
Wide(parts) ==
    IF Len(parts) = 0 THEN <<" ", " ">>
    ELSE IF Len(parts) = 1 THEN <<parts[1]>>
    ELSE <<parts[1], " ", " ">> \o Wide(Tail(parts))

Layout(style, parts) ==
    IF style = "tight" THEN Join(parts)
    ELSE IF style = "padded" THEN <<" ">> \o Join(parts) \o <<" ">>
    ELSE Wide(parts)

LoopIdle == LoopInit

ClassifierInit ==
    /\ \E n \in 0..MaxTokens : \E parts \in [1..n -> Vocabulary] :
          \E style \in Layouts : command = Layout(style, parts)
    /\ level = ""
    /\ legacyLevel = ""
    /\ autoApprove = NoApproval

Analyze ==
    /\ level = ""
    /\ level' = Show(analyzeSafety(command))
    /\ UNCHANGED <<command, legacyLevel, autoApprove, loopVars, writeVars, cliVars>>

\* The historical implementation answers for the same command after the
\* current one.
AnalyzeLegacy ==
    /\ level # ""
    /\ legacyLevel = ""
    /\ legacyLevel' = Show(analyzeSafetyLegacy(command))
    /\ UNCHANGED <<command, level, autoApprove, loopVars, writeVars, cliVars>>

\* shouldAutoApprove(command, autoApproveEnabled) of both implementations,
\* called once the command is classified.
AutoApprove ==
    /\ level # ""
    /\ legacyLevel # ""
    /\ ~autoApprove.asked
    /\ \E autoApproveEnabled \in BOOLEAN :
          autoApprove' = [asked |-> TRUE,
                          enabled |-> autoApproveEnabled,
                          current |-> shouldAutoApprove(command, autoApproveEnabled),
                          legacy |-> shouldAutoApproveLegacy(command, autoApproveEnabled)]
    /\ UNCHANGED <<command, level, legacyLevel, loopVars, writeVars, cliVars>>

ClassifyInit == LoopIdle /\ WriteIdle /\ CliIdle /\ ClassifierInit
ClassifyNext == Analyze \/ AnalyzeLegacy \/ AutoApprove
ClassifySpec == ClassifyInit /\ [][ClassifyNext]_vars

MaxArgs == 2        \* arguments after the subcommand

\* The commands with a subcommand or flags of a mapping: "git reset" or "rm",
\* followed by flags and other arguments.
ArgumentsInit ==
    /\ LoopIdle
    /\ WriteIdle
    /\ CliIdle
    /\ \E head \in {<<"git", "reset">>, <<"rm">>} :
          \E n \in 0..MaxArgs :
             \E args \in [1..n -> {"--soft", "--hard", "-rf", "foo"}] :
                \E style \in Layouts : command = Layout(style, head \o args)
    /\ level = ""
    /\ legacyLevel = ""
    /\ autoApprove = NoApproval
ArgumentsSpec == ArgumentsInit /\ [][ClassifyNext]_vars

MaxTail == 2        \* tokens that follow the head of a compound command

\* The heads of the compound commands: a first token with a terminal level of
\* each kind, a subcommand of each level, and mappings with flags.
Heads ==
    {<<"ls">>, <<"cp">>, <<"sudo">>, <<"git", "status">>, <<"git", "push">>,
     <<"rm", "-rf">>, <<"unzip">>, <<"curl">>}

\* What follows the head: a chained command, a pipe, a redirection to the
\* null device (with and without a blank), flags and arguments.
TailTokens ==
    {";", "|", "sh", "rm", ">", "/dev/null", ">/dev/null", "-l", "foo", "-X", "GET"}

CompoundInit ==
    /\ LoopIdle
    /\ WriteIdle
    /\ CliIdle
    /\ \E head \in Heads :
          \E n \in 0..MaxTail :
             \E tail \in [1..n -> TailTokens] :
                \E style \in Layouts : command = Layout(style, head \o tail)
    /\ level = ""
    /\ legacyLevel = ""
    /\ autoApprove = NoApproval
CompoundSpec == CompoundInit /\ [][ClassifyNext]_vars

(***************************************************************************)
(* The write_file tool.  A call goes through shouldConfirmExecute, the     *)
(* answer to the confirmation request if one is issued, and execute; each   *)
(* action is a segment between two awaits.  Other processes change what is  *)
(* at the target path at any time.                                          *)
(***************************************************************************)
MaxWriteCalls == 2  \* write_file calls of a session
MaxChanges == 2     \* changes other processes make to the target path

ApprovalModes == {"DEFAULT", "AUTO_EDIT", "YOLO"}

\* What is at file_path: nothing, a readable file, a file that cannot be read,
\* or a directory.
PathStates == {"absent", "file", "unreadable", "directory"}

\* The answers to a confirmation request.
Outcomes == {"ProceedOnce", "ProceedAlways", "Cancel"}

\* Parameter sets: file_path is absolute and inside the root directory, or
\* relative, or absolute and outside the root; schema tells whether the
\* parameters pass the schema validation.
ParamSets ==
    {[schema |-> TRUE, file_path |-> "inside", append |-> a, prepend |-> b] :
        a, b \in BOOLEAN}
    \cup {[schema |-> TRUE, file_path |-> f, append |-> FALSE, prepend |-> FALSE] :
             f \in {"relative", "outside"}}
    \cup {[schema |-> FALSE, file_path |-> "inside", append |-> FALSE, prepend |-> FALSE]}

\* The error message of validateToolParams, "" for null.
validateToolParams(p, t) ==
    IF ~p.schema THEN "Parameters failed schema validation."
    ELSE IF p.file_path = "relative" THEN "File path must be absolute"
    ELSE IF p.file_path = "outside" THEN "File path must be within the root directory"
    ELSE IF p.append /\ p.prepend
    THEN "Cannot use both append and prepend modes simultaneously."
    ELSE IF t = "directory" THEN "Path is a directory, not a file"
    ELSE ""

\* _getCorrectedFileContent up to its first await: readFileSync succeeds,
\* fails with ENOENT (a new file), or fails otherwise (an error is returned).
getCorrectedFileContent(t) ==
    [fileExists |-> t # "absent", error |-> t \in {"unreadable", "directory"}]

\* A variant without the test of the approval mode.
shouldConfirmExecuteInEveryMode(mode, p, t) ==
    /\ validateToolParams(p, t) = ""
    /\ ~getCorrectedFileContent(t).error

\* shouldConfirmExecute: TRUE when it returns confirmation details, FALSE
\* when it returns false.
shouldConfirmExecute(mode, p, t) ==
    IF mode = "AUTO_EDIT" THEN FALSE
    ELSE IF validateToolParams(p, t) # "" THEN FALSE
    ELSE IF getCorrectedFileContent(t).error THEN FALSE
    ELSE TRUE

\* A variant that widens the mode on every answer that proceeds.
onConfirmAnyProceed(mode, answer) ==
    IF answer \in {"ProceedOnce", "ProceedAlways"} THEN "AUTO_EDIT" ELSE mode

\* onConfirm of the confirmation details: the approval mode after the answer.
onConfirm(mode, answer) ==
    IF answer = "ProceedAlways" THEN "AUTO_EDIT" ELSE mode

\* A variant of the gate that asks in every mode.
AutoAllAsks(mode) == FALSE

\* The approval gate proceeds without consulting the tool in this mode.
AutoAll(mode) == mode = "YOLO"

WriteInit ==
    /\ approvalMode \in ApprovalModes
    /\ target \in PathStates
    /\ changes = 0
    /\ writeCalls = 0
    /\ writePc = "idle"
    /\ params = NoParams
    /\ requested = FALSE
    /\ outcome = ""
    /\ confirmations = {}
    /\ writes = {}

\* A call arrives: the gate, then shouldConfirmExecute up to its await.
ShouldConfirmExecute(p) ==
    /\ writePc = "idle"
    /\ writeCalls < MaxWriteCalls
    /\ writeCalls' = writeCalls + 1
    /\ params' = p
    /\ requested' = FALSE
    /\ outcome' = ""
    /\ writePc' = IF AutoAll(approvalMode) THEN "scheduled"
                  ELSE IF shouldConfirmExecute(approvalMode, p, target) THEN "confirming"
                  ELSE "scheduled"
    /\ UNCHANGED <<approvalMode, target, changes, confirmations, writes,
                   loopVars, classifierVars, cliVars>>

\* The content correction returns: the confirmation details are built from
\* what was read before and handed to the user.
ConfirmationIssued ==
    /\ writePc = "confirming"
    /\ writePc' = "awaiting_approval"
    /\ requested' = TRUE
    /\ confirmations' = confirmations \cup {[call |-> writeCalls, mode |-> approvalMode]}
    /\ UNCHANGED <<approvalMode, target, changes, writeCalls, params, outcome, writes,
                   loopVars, classifierVars, cliVars>>

\* The user answers: onConfirm runs, then the call is executed or dropped.
Answer(answer) ==
    /\ writePc = "awaiting_approval"
    /\ outcome' = answer
    /\ approvalMode' = onConfirm(approvalMode, answer)
    /\ writePc' = IF answer = "Cancel" THEN "idle" ELSE "scheduled"
    /\ UNCHANGED <<target, changes, writeCalls, params, requested, confirmations, writes,
                   loopVars, classifierVars, cliVars>>

\* execute up to its await: validation and the read of the existing file.
ExecuteBegin ==
    /\ writePc = "scheduled"
    /\ writePc' = IF \/ validateToolParams(params, target) # ""
                     \/ getCorrectedFileContent(target).error
                  THEN "idle"
                  ELSE "executing"
    /\ UNCHANGED <<approvalMode, target, changes, writeCalls, params, requested, outcome,
                   confirmations, writes, loopVars, classifierVars, cliVars>>

\* execute after the content correction: the write.  Appending to a directory
\* and prepending to what cannot be read throw before anything is written;
\* renaming the temporary file onto a directory throws and leaves the
\* temporary file; appending to a file that cannot be read may throw.
ExecuteWrite ==
    /\ writePc = "executing"
    /\ writePc' = "idle"
    /\ \E permitted \in BOOLEAN :
          LET written == [call |-> writeCalls, mode |-> approvalMode,
                          requested |-> requested]
              throws == IF params.append
                        THEN target = "directory" \/ (target = "unreadable" /\ ~permitted)
                        ELSE IF params.prepend
                        THEN target \in {"directory", "unreadable"}
                        ELSE FALSE
          IN IF throws
             THEN UNCHANGED <<target, writes>>
             ELSE /\ writes' = writes \cup {written}
                  /\ target' = IF target = "directory" THEN "directory" ELSE "file"
    /\ UNCHANGED <<approvalMode, changes, writeCalls, params, requested, outcome,
                   confirmations, loopVars, classifierVars, cliVars>>

\* Another process changes what is at the target path.
TargetChanges(t) ==
    /\ changes < MaxChanges
    /\ t # target
    /\ target' = t
    /\ changes' = changes + 1
    /\ UNCHANGED <<approvalMode, writeCalls, writePc, params, requested, outcome,
                   confirmations, writes, loopVars, classifierVars, cliVars>>

WriteFileInit == LoopIdle /\ ClassifierIdle /\ CliIdle /\ WriteInit
WriteFileNext ==
    \/ \E p \in ParamSets : ShouldConfirmExecute(p)
    \/ ConfirmationIssued
    \/ \E answer \in Outcomes : Answer(answer)
    \/ ExecuteBegin
    \/ ExecuteWrite
    \/ \E t \in PathStates : TargetChanges(t)
WriteFileSpec == WriteFileInit /\ [][WriteFileNext]_vars

(***************************************************************************)
(* The content of a write_file call in overwrite mode: what the            *)
(* confirmation shows, what execute writes and what its result reports.    *)
(***************************************************************************)
\* Contents a model proposes: one with an escaped line break, one without.
Contents == {"a\\nb", "a b"}

\* ensureCorrectEdit and ensureCorrectFileContent: the content is returned as
\* it is or with its escapes resolved; each call decides on its own.
EnsureCorrect(proposedContent) ==
    {proposedContent} \cup (IF proposedContent = "a\\nb" THEN {"a/b"} ELSE {})

\* The parameters of a call in overwrite mode.
OverwriteParams ==
    [schema |-> TRUE, file_path |-> "inside", append |-> FALSE, prepend |-> FALSE]

\* A call arrives: the gate, then shouldConfirmExecute, which builds the
\* confirmation diff from the corrected content.
ConfirmOverwrite(content, correctedContent) ==
    /\ overwrite.pc = "idle"
    /\ overwrite.content = "none"
    /\ correctedContent \in EnsureCorrect(content)
    /\ LET asks == /\ ~AutoAll(approvalMode)
                   /\ shouldConfirmExecute(approvalMode, OverwriteParams, target)
       IN overwrite' = [overwrite EXCEPT
                           !.content = content,
                           !.proposed = IF asks THEN correctedContent ELSE "none",
                           !.pc = IF asks THEN "awaiting_approval" ELSE "scheduled"]
    /\ UNCHANGED <<loopVars, classifierVars, writeVars, launch, hook, setup>>

\* The user answers the confirmation request.
AnswerOverwrite(answer) ==
    /\ overwrite.pc = "awaiting_approval"
    /\ approvalMode' = onConfirm(approvalMode, answer)
    /\ overwrite' = [overwrite EXCEPT !.pc = IF answer = "Cancel" THEN "done" ELSE "scheduled"]
    /\ UNCHANGED <<target, changes, writeCalls, writePc, params, requested, outcome,
                   confirmations, writes, loopVars, classifierVars, launch, hook, setup>>

\* execute in overwrite mode: the content is corrected again, params.content
\* is written to the temporary file and renamed onto the target, and the
\* result diff is built from the corrected content.
ExecuteOverwrite(correctedContent) ==
    /\ overwrite.pc = "scheduled"
    /\ correctedContent \in EnsureCorrect(overwrite.content)
    /\ IF \/ validateToolParams(OverwriteParams, target) # ""
          \/ getCorrectedFileContent(target).error
       THEN /\ overwrite' = [overwrite EXCEPT !.pc = "done"]
            /\ UNCHANGED target
       ELSE /\ overwrite' = [overwrite EXCEPT !.pc = "done",
                                              !.disk = overwrite.content,
                                              !.reported = correctedContent]
            /\ target' = "file"
    /\ UNCHANGED <<approvalMode, changes, writeCalls, writePc, params, requested, outcome,
                   confirmations, writes, loopVars, classifierVars, launch, hook, setup>>

OverwriteNext ==
    \/ \E content \in Contents : \E correctedContent \in {"a\\nb", "a b", "a/b"} :
          ConfirmOverwrite(content, correctedContent)
    \/ \E answer \in Outcomes : AnswerOverwrite(answer)
    \/ \E correctedContent \in {"a\\nb", "a b", "a/b"} : ExecuteOverwrite(correctedContent)
    \/ \E t \in PathStates : TargetChanges(t)
\* The call arrives under each approval mode and each state of the target.
OverwriteSpec == WriteFileInit /\ [][OverwriteNext]_vars

(***************************************************************************)
(* The start of the process: main chooses the execution mode, and the      *)
(* non-interactive mode reads stdin, loads its configuration and runs the  *)
(* loop.  Each action is a segment between two awaits.                      *)
(***************************************************************************)
\* shellTool.Name, EditTool.Name and WriteFileTool.Name.
InteractiveTools == {"run_shell_command", "replace", "write_file"}

\* The switch of main: the discriminant process.stdin.isTTY &&
\* input?.length === 0 is a JavaScript value, compared to true and to false
\* with strict equality.
ExecutionMode(isTTY, input) ==
    LET discriminant == IF isTTY = "true"
                        THEN IF input = "" THEN "true" ELSE "false"
                        ELSE isTTY
    IN CASE discriminant = "true" -> "interactive"
         [] discriminant = "false" -> "nonInteractive"
         [] OTHER -> "unexpected"

\* A variant that leaves the excluded tools of the settings as they are.
loadNonInteractiveConfigKeepsSettings(mode, existing) == existing

\* loadNonInteractiveConfig: the excluded tools of the configuration it returns.
loadNonInteractiveConfig(mode, existing) ==
    IF mode # "YOLO" THEN existing \cup InteractiveTools ELSE existing

\* The process starts: stdin is a terminal or not, with or without a
\* question, under each approval mode and with settings that exclude tools.
LaunchInit ==
    /\ LoopIdle
    /\ ClassifierIdle
    /\ approvalMode \in ApprovalModes
    /\ target = "absent"
    /\ changes = 0
    /\ writeCalls = 0
    /\ writePc = "idle"
    /\ params = NoParams
    /\ requested = FALSE
    /\ outcome = ""
    /\ confirmations = {}
    /\ writes = {}
    /\ overwrite = [pc |-> "idle", content |-> "none", proposed |-> "none",
                    reported |-> "none", disk |-> "none"]
    /\ hook = [active |-> FALSE, kitty |-> FALSE, kittySequenceBuffer |-> <<>>,
               isPaste |-> FALSE, pasteBuffer |-> <<>>, delivered |-> <<>>,
               received |-> <<>>]
    /\ setup = [pc |-> "idle", file |-> "absent", content |-> "none", backup |-> "none",
                previous |-> "none", rewritten |-> FALSE, result |-> "", edits |-> 0]
    /\ \E isTTY \in {"true", "false", "undefined"} :
          \E input \in {"undefined", "", "why"} :
             \E excluded \in SUBSET {"run_shell_command", "web_fetch"} :
                launch = [stdinIsTTY |-> isTTY, question |-> input, settings |-> excluded,
                          pc |-> "main", mode |-> "", excludeTools |-> excluded,
                          executed |-> {}, exit |-> -1]

\* main after the services are prepared: the switch on the execution mode.
Main ==
    /\ launch.pc = "main"
    /\ LET mode == ExecutionMode(launch.stdinIsTTY, launch.question)
       IN launch' = [launch EXCEPT
                        !.mode = mode,
                        !.pc = CASE mode = "interactive" -> "interactive"
                                 [] mode = "nonInteractive" -> "readingStdin"
                                 [] OTHER -> "exited",
                        !.exit = IF mode = "unexpected" THEN 1 ELSE @]
    /\ UNCHANGED <<loopVars, classifierVars, writeVars, overwrite, hook, setup>>

\* runNonInteractiveMode up to the load of the configuration: what was piped
\* (empty or not) is appended when stdin is not a terminal; without input the
\* process exits.
RunNonInteractiveMode(piped) ==
    /\ launch.pc = "readingStdin"
    /\ LET empty == IF launch.stdinIsTTY = "true"
                    THEN launch.question \in {"undefined", ""}
                    ELSE launch.question = "" /\ piped = ""
       IN launch' = IF empty
                    THEN [launch EXCEPT !.pc = "exited", !.exit = 1]
                    ELSE [launch EXCEPT !.pc = "loading"]
    /\ UNCHANGED <<loopVars, classifierVars, writeVars, overwrite, hook, setup>>

\* loadNonInteractiveConfig and validateNonInterActiveAuth: the configuration
\* handed to the loop, or the exit when the authentication is not usable.
LoadNonInteractiveConfig(authenticated) ==
    /\ launch.pc = "loading"
    /\ launch' = [launch EXCEPT
                     !.excludeTools = loadNonInteractiveConfig(approvalMode, launch.settings),
                     !.pc = IF authenticated THEN "running" ELSE "exited",
                     !.exit = IF authenticated THEN @ ELSE 1]
    /\ UNCHANGED <<loopVars, classifierVars, writeVars, overwrite, hook, setup>>

\* The loop dispatches a call the model asked for: a tool of the registry is
\* executed, an excluded tool is not in the registry.
ExecuteRegisteredTool(name) ==
    /\ launch.pc = "running"
    /\ name \notin launch.executed
    /\ name \notin launch.excludeTools
    /\ launch' = [launch EXCEPT !.executed = @ \cup {name}]
    /\ UNCHANGED <<loopVars, classifierVars, writeVars, overwrite, hook, setup>>

\* runNonInteractive returns: process.exit(0).
LaunchExit ==
    /\ launch.pc = "running"
    /\ launch' = [launch EXCEPT !.pc = "exited", !.exit = 0]
    /\ UNCHANGED <<loopVars, classifierVars, writeVars, overwrite, hook, setup>>

LaunchNext ==
    \/ Main
    \/ \E piped \in {"", "text"} : RunNonInteractiveMode(piped)
    \/ \E authenticated \in BOOLEAN : LoadNonInteractiveConfig(authenticated)
    \/ \E name \in InteractiveTools \cup {"read_file", "web_fetch"} :
          ExecuteRegisteredTool(name)
    \/ LaunchExit
LaunchSpec == LaunchInit /\ [][LaunchNext]_vars

(***************************************************************************)
(* The keypress hook (useEnhancedKeypress).  A sequence is the tuple of    *)
(* its characters, "ESC" standing for the escape character.  The listener   *)
(* runs to completion on each keypress event of readline.                  *)
(***************************************************************************)
MaxKeys == 4        \* keypress events and cleanups of a session

\* The keys readline emits: a letter, Ctrl+C in standard form and as the
\* Kitty sequence, an arrow key, the Kitty Enter, and the two ends of a
\* bracketed paste.
Keys ==
    [a |-> [name |-> "a", ctrl |-> FALSE, meta |-> FALSE, shift |-> FALSE,
            sequence |-> <<"a">>],
     ctrlC |-> [name |-> "c", ctrl |-> TRUE, meta |-> FALSE, shift |-> FALSE,
                sequence |-> <<"ETX">>],
     kittyCtrlC |-> [name |-> "", ctrl |-> FALSE, meta |-> FALSE, shift |-> FALSE,
                     sequence |-> <<"ESC", "[", "9", "9", ";", "5", "u">>],
     up |-> [name |-> "up", ctrl |-> FALSE, meta |-> FALSE, shift |-> FALSE,
             sequence |-> <<"ESC", "[", "A">>],
     kittyEnter |-> [name |-> "", ctrl |-> FALSE, meta |-> FALSE, shift |-> FALSE,
                     sequence |-> <<"ESC", "[", "1", "3", "u">>],
     pasteStart |-> [name |-> "paste-start", ctrl |-> FALSE, meta |-> FALSE,
                     shift |-> FALSE, sequence |-> <<"ESC", "[", "2", "0", "0", "~">>],
     pasteEnd |-> [name |-> "paste-end", ctrl |-> FALSE, meta |-> FALSE,
                   shift |-> FALSE, sequence |-> <<"ESC", "[", "2", "0", "1", "~">>]]

\* parseKittySequence: the set of the key it returns, empty for null.  The
\* sequence must match ^ESC\[(\d+)(;(\d+))?([u~])$.
parseKittySequence(sequence) ==
    LET n == Len(sequence)
        Digit == [c \in {"0", "1", "2", "3", "4", "5", "6", "7", "8", "9"} |->
                    CASE c = "0" -> 0 [] c = "1" -> 1 [] c = "2" -> 2 [] c = "3" -> 3
                      [] c = "4" -> 4 [] c = "5" -> 5 [] c = "6" -> 6 [] c = "7" -> 7
                      [] c = "8" -> 8 [] c = "9" -> 9]
        IsDigits(t) == t # <<>> /\ \A i \in DOMAIN t : t[i] \in DOMAIN Digit
        parseInt(t) == LET v[i \in 0..Len(t)] ==
                               IF i = 0 THEN 0 ELSE 10 * v[i - 1] + Digit[t[i]]
                       IN v[Len(t)]
        body == SubSeq(sequence, 3, n - 1)
        semi == {k \in DOMAIN body : body[k] = ";"}
        first == IF semi = {} THEN body
                 ELSE SubSeq(body, 1, (CHOOSE k \in semi : TRUE) - 1)
        second == IF semi = {} THEN <<>>
                  ELSE SubSeq(body, (CHOOSE k \in semi : TRUE) + 1, Len(body))
        match == /\ n >= 4
                 /\ sequence[1] = "ESC"
                 /\ sequence[2] = "["
                 /\ sequence[n] \in {"u", "~"}
                 /\ Cardinality(semi) <= 1
                 /\ IsDigits(first)
                 /\ semi # {} => IsDigits(second)
    IN IF ~match THEN {}
       ELSE LET keyCode == parseInt(first)
                modifiers == IF semi # {} THEN parseInt(second) ELSE 1
                modifierBits == modifiers - 1
                shift == modifierBits % 2 = 1
                alt == (modifierBits \div 2) % 2 = 1
                ctrl == (modifierBits \div 4) % 2 = 1
            IN IF keyCode = 13
               THEN {[name |-> "return", ctrl |-> ctrl, meta |-> alt, shift |-> shift,
                      paste |-> FALSE, sequence |-> sequence, kittyProtocol |-> TRUE]}
               ELSE IF keyCode = 99 /\ ctrl
               THEN {[name |-> "c", ctrl |-> TRUE, meta |-> alt, shift |-> shift,
                      paste |-> FALSE, sequence |-> sequence, kittyProtocol |-> TRUE]}
               ELSE {}

\* A variant of the test that knows the standard form only.
IsCtrlCStandardOnly(key) == key.ctrl /\ key.name = "c"

\* (key.ctrl && key.name === 'c') || key.sequence === '\x1b[99;5u'
IsCtrlC(key) ==
    (key.ctrl /\ key.name = "c") \/ key.sequence = <<"ESC", "[", "9", "9", ";", "5", "u">>

\* handleKeypress: the hook after the listener has run on key.  A key handed
\* to onKeypress is a record with paste and kittyProtocol (FALSE when the
\* code leaves them out).
handleKeypress(h, key) ==
    LET csi == Len(key.sequence) >= 2 /\ key.sequence[1] = "ESC" /\ key.sequence[2] = "["
        Call(g, e) == [g EXCEPT !.delivered = Append(@, e)]
        Plain(k, p) == [name |-> k.name, ctrl |-> k.ctrl, meta |-> k.meta,
                        shift |-> k.shift, paste |-> p, sequence |-> k.sequence,
                        kittyProtocol |-> FALSE]
        Pasted(t) == [name |-> "", ctrl |-> FALSE, meta |-> FALSE, shift |-> FALSE,
                      paste |-> TRUE, sequence |-> t, kittyProtocol |-> FALSE]
        \* Standard keypress handling, g being the hook at that point.
        Standard(g) ==
            IF key.name = "paste-start" THEN [g EXCEPT !.isPaste = TRUE]
            ELSE IF key.name = "paste-end"
            THEN [Call(g, Pasted(g.pasteBuffer)) EXCEPT !.isPaste = FALSE,
                                                        !.pasteBuffer = <<>>]
            ELSE IF g.isPaste
            THEN [g EXCEPT !.pasteBuffer = @ \o key.sequence]
            ELSE Call(g, [Plain(key, FALSE) EXCEPT
                             !.meta = IF key.name = "return" /\ key.sequence = <<"ESC", "CR">>
                                      THEN TRUE ELSE @])
        buffered == h.kittySequenceBuffer \o key.sequence
    IN IF IsCtrlC(key)
       THEN Call([h EXCEPT !.kittySequenceBuffer = <<>>],
                 IF key.sequence = <<"ESC", "[", "9", "9", ";", "5", "u">>
                 THEN [name |-> "c", ctrl |-> TRUE, meta |-> FALSE, shift |-> FALSE,
                       paste |-> FALSE, sequence |-> key.sequence, kittyProtocol |-> FALSE]
                 ELSE Plain(key, FALSE))
       ELSE IF h.kitty /\ csi
       THEN IF parseKittySequence(buffered) # {}
            THEN Call([h EXCEPT !.kittySequenceBuffer = <<>>],
                      CHOOSE kittyKey \in parseKittySequence(buffered) : TRUE)
            ELSE IF Len(buffered) > 10
            THEN Standard([h EXCEPT !.kittySequenceBuffer = <<>>])
            ELSE [h EXCEPT !.kittySequenceBuffer = buffered]
       ELSE IF h.kittySequenceBuffer # <<>> /\ ~csi
       THEN Standard([h EXCEPT !.kittySequenceBuffer = <<>>])
       ELSE Standard(h)

\* The effect runs: raw mode, a new closure, the listener installed.  The
\* buffer of Kitty sequences is a ref and outlives the effect.
Mount(kittyProtocolEnabled) ==
    /\ ~hook.active
    /\ hook' = [hook EXCEPT !.active = TRUE, !.kitty = kittyProtocolEnabled,
                            !.isPaste = FALSE, !.pasteBuffer = <<>>]
    /\ UNCHANGED <<loopVars, classifierVars, writeVars, launch, overwrite, setup>>

\* A keypress event of readline reaches the listener.
HandleKeypress(key) ==
    /\ hook.active
    /\ Len(hook.received) < MaxKeys
    /\ hook' = [handleKeypress(hook, key) EXCEPT !.received = Append(@, key)]
    /\ UNCHANGED <<loopVars, classifierVars, writeVars, launch, overwrite, setup>>

\* The cleanup of the effect: the listener is removed, and what was pasted so
\* far is sent.
Cleanup ==
    /\ hook.active
    /\ Len(hook.received) < MaxKeys
    /\ hook' = [hook EXCEPT
                   !.active = FALSE,
                   !.pasteBuffer = IF hook.isPaste THEN <<>> ELSE @,
                   !.delivered = IF hook.isPaste
                                 THEN Append(@, [name |-> "", ctrl |-> FALSE, meta |-> FALSE,
                                                 shift |-> FALSE, paste |-> TRUE,
                                                 sequence |-> hook.pasteBuffer,
                                                 kittyProtocol |-> FALSE])
                                 ELSE @,
                   !.received = Append(@, [name |-> "cleanup", ctrl |-> FALSE,
                                           meta |-> FALSE, shift |-> FALSE,
                                           sequence |-> <<>>])]
    /\ UNCHANGED <<loopVars, classifierVars, writeVars, launch, overwrite, setup>>

HookNext ==
    \/ \E kittyProtocolEnabled \in BOOLEAN : Mount(kittyProtocolEnabled)
    \/ \E k \in DOMAIN Keys : HandleKeypress(Keys[k])
    \/ Cleanup
\* The component is rendered and its effect has not run yet.
HookSpec == Init /\ [][HookNext]_vars

(***************************************************************************)
(* The terminal setup of VS Code (configureVSCode).  The content of        *)
(* keybindings.json is one of: "empty" (an array without the bindings),    *)
(* "shift" (an array with the Shift+Enter binding), "configured" (both      *)
(* bindings), "object" (JSON that is no array), "invalid" (no JSON).        *)
(***************************************************************************)
MaxEdits == 1       \* changes other programs make to keybindings.json

\* configureVSCode up to the read of keybindings.json: the directory of the
\* platform (none on Windows without APPDATA), then mkdir.
ConfigureVSCode(appData, made) ==
    /\ setup.pc = "start"
    /\ setup' = IF appData /\ made
                THEN [setup EXCEPT !.pc = "readFile"]
                ELSE [setup EXCEPT !.pc = "done", !.result = "failure"]
    /\ UNCHANGED <<loopVars, classifierVars, writeVars, launch, overwrite, hook>>

\* readFile returns or throws.  When it throws, for whatever reason, the file
\* is taken as missing and an array with the two bindings is written.
ReadFile(readable) ==
    /\ setup.pc = "readFile"
    /\ setup' = IF setup.file # "absent" /\ readable
                THEN [setup EXCEPT !.pc = "backupFile", !.content = setup.file]
                ELSE [setup EXCEPT !.pc = "writeFile"]
    /\ UNCHANGED <<loopVars, classifierVars, writeVars, launch, overwrite, hook>>

\* backupFile: copyFile copies what the file holds or throws, and a failure is
\* logged only.  Then what was read is parsed and searched for the bindings.
BackupFile(copied) ==
    /\ setup.pc = "backupFile"
    /\ LET saved == IF copied /\ setup.file # "absent" THEN setup.file ELSE setup.backup
       IN setup' = IF setup.content \in {"object", "invalid"}
                   THEN [setup EXCEPT !.backup = saved, !.pc = "done", !.result = "failure"]
                   ELSE IF setup.content = "configured"
                   THEN [setup EXCEPT !.backup = saved, !.pc = "done", !.result = "success"]
                   ELSE [setup EXCEPT !.backup = saved, !.pc = "writeFile"]
    /\ UNCHANGED <<loopVars, classifierVars, writeVars, launch, overwrite, hook>>

\* writeFile writes the array with both bindings, or throws.
WriteFile(written) ==
    /\ setup.pc = "writeFile"
    /\ setup' = IF written
                THEN [setup EXCEPT !.pc = "done", !.result = "success",
                                   !.previous = setup.file,
                                   !.rewritten = setup.file # "absent",
                                   !.file = "configured"]
                ELSE [setup EXCEPT !.pc = "done", !.result = "failure"]
    /\ UNCHANGED <<loopVars, classifierVars, writeVars, launch, overwrite, hook>>

\* Another program (the editor) changes keybindings.json.
KeybindingsChange(c) ==
    /\ setup.pc \notin {"idle", "done"}
    /\ setup.edits < MaxEdits
    /\ c # setup.file
    /\ setup' = [setup EXCEPT !.file = c, !.edits = @ + 1]
    /\ UNCHANGED <<loopVars, classifierVars, writeVars, launch, overwrite, hook>>

\* terminalSetup has detected VS Code; keybindings.json holds anything or is
\* missing.
SetupInit ==
    /\ LoopIdle
    /\ ClassifierIdle
    /\ WriteIdle
    /\ launch = [stdinIsTTY |-> "true", question |-> "", settings |-> {}, pc |-> "idle",
                 mode |-> "", excludeTools |-> {}, executed |-> {}, exit |-> -1]
    /\ overwrite = [pc |-> "idle", content |-> "none", proposed |-> "none",
                    reported |-> "none", disk |-> "none"]
    /\ hook = [active |-> FALSE, kitty |-> FALSE, kittySequenceBuffer |-> <<>>,
               isPaste |-> FALSE, pasteBuffer |-> <<>>, delivered |-> <<>>,
               received |-> <<>>]
    /\ \E c \in {"absent", "empty", "shift", "configured", "object", "invalid"} :
          setup = [pc |-> "start", file |-> c, content |-> "none", backup |-> "none",
                   previous |-> "none", rewritten |-> FALSE, result |-> "", edits |-> 0]
SetupNext ==
    \/ \E appData, made \in BOOLEAN : ConfigureVSCode(appData, made)
    \/ \E readable \in BOOLEAN : ReadFile(readable)
    \/ \E copied \in BOOLEAN : BackupFile(copied)
    \/ \E written \in BOOLEAN : WriteFile(written)
    \/ \E c \in {"absent", "empty", "shift", "configured", "object", "invalid"} :
          KeybindingsChange(c)
SetupSpec == SetupInit /\ [][SetupNext]_vars

(***************************************************************************)
(* Properties of the turn loop                                             *)
(***************************************************************************)
DispatchedIn(r) == SelectSeq(dispatched, LAMBDA d : d.round = r)
ResultsIn(r) == SelectSeq(results, LAMBDA x : x.round = r)

RECURSIVE ConcatResponses(_)
ConcatResponses(rs) ==
    IF rs = <<>> THEN <<>>
    ELSE NormalizeResponse(Head(rs).res) \o ConcatResponses(Tail(rs))

RECURSIVE TextOf(_)
TextOf(chunks) ==
    IF chunks = <<>> THEN <<>>
    ELSE getResponseText(Head(chunks).resp) \o TextOf(Tail(chunks))

\* The calls of round r were dispatched one by one, in the order received,
\* m of them so far.
DispatchedInOrder(r, m) ==
    /\ Len(DispatchedIn(r)) = m
    /\ m <= Len(issued[r])
    /\ \A k \in 1..m :
          /\ DispatchedIn(r)[k].idx = k
          /\ DispatchedIn(r)[k].req.name = issued[r][k].name
          /\ issued[r][k].id # Undefined =>
                DispatchedIn(r)[k].req.callId.id = issued[r][k].id

\* C1 as stated: once a round whose stream carried N >= 1 calls is over,
\* executeToolCall was invoked exactly N times in call order and the next
\* message is a user message of exactly N parts, the k-th answering call k.
C1_ExactlyNParts ==
    \A r \in DOMAIN issued :
       (Len(issued[r]) >= 1 /\ (round > r \/ pc \in Terminal)) =>
          /\ DispatchedInOrder(r, Len(issued[r]))
          /\ Len(requests) > r
          /\ requests[r + 1].role = "user"
          /\ Len(requests[r + 1].parts) = Len(issued[r])
          /\ \A k \in 1..Len(issued[r]) :
                requests[r + 1].parts[k].callId = DispatchedIn(r)[k].req.callId

\* C1 (amended): in a round whose stream carried N >= 1 calls the calls are
\* dispatched one at a time in call order; if no result of the round carries a
\* non-NotFound error, exactly N are dispatched and the next message is one
\* user message whose parts are the response parts of the calls concatenated
\* in call order (N parts, the k-th answering call k, when every call returned
\* exactly one part).
C1_DispatchInOrderAndReply ==
    \A r \in DOMAIN issued :
       Len(issued[r]) >= 1 =>
          /\ DispatchedInOrder(r, Len(DispatchedIn(r)))
          /\ \A k \in 1..Len(ResultsIn(r)) : ResultsIn(r)[k].idx = k
          /\ (\A k \in 1..Len(ResultsIn(r)) :
                 ResultsIn(r)[k].res.error \in {NoError, NotFoundError})
              /\ Len(ResultsIn(r)) = Len(DispatchedIn(r))
              /\ (round > r \/ pc \in Terminal)
             => /\ Len(DispatchedIn(r)) = Len(issued[r])
                /\ Len(requests) > r
                /\ requests[r + 1] =
                      [role |-> "user", parts |-> ConcatResponses(ResultsIn(r))]
                /\ (\A k \in 1..Len(issued[r]) :
                       Len(NormalizeResponse(ResultsIn(r)[k].res)) = 1)
                   => /\ Len(requests[r + 1].parts) = Len(issued[r])
                      /\ \A k \in 1..Len(issued[r]) :
                            requests[r + 1].parts[k].callId =
                               DispatchedIn(r)[k].req.callId

\* Two calls were answered with more than two parts in all, in call order.
C1_Witness ==
    /\ round = 2
    /\ Len(issued[1]) = 2
    /\ Len(requests[2].parts) = 3
    /\ requests[2].parts[1].callId = DispatchedIn(1)[1].req.callId
    /\ requests[2].parts[3].callId = DispatchedIn(1)[2].req.callId

\* The round of a stream that carried no call is the last one: no further
\* request, no tool dispatched in it, and the loop is Done.
LastRound(r) ==
    /\ pc = "Done"
    /\ exitCode = 0
    /\ r = round
    /\ Len(requests) = r
    /\ DispatchedIn(r) = <<>>
    /\ toolsRunning = 0

\* C2 as stated: a stream that carried no function call ends the run after
\* that round without a tool dispatch, and the text of every response consumed
\* was emitted exactly once, in the order received.
C2_TextEmittedOnce ==
    \A r \in DOMAIN issued :
       issued[r] = <<>> =>
          /\ LastRound(r)
          /\ AllText(stdout) = TextOf(received) \o <<"\n">>

\* C2 (amended): a stream that carried no function call ends the run after
\* that round without a tool dispatch, and what process.stdout.write has
\* written is the text of every response consumed, once each and in the order
\* received, followed by the final newline; the lines of console.log on the same
\* stream are not counted.
C2_ZeroCallsEndsRun ==
    \A r \in DOMAIN issued :
       issued[r] = <<>> =>
          /\ LastRound(r)
          /\ Written(stdout) = TextOf(received) \o <<"\n">>

\* The first stream carried two responses with text and no call.
C2_Witness ==
    /\ pc = "Done"
    /\ Len(requests) = 1
    /\ Len(received) = 2
    /\ Len(Written(stdout)) >= 3

\* C3: a result whose error is not NotFound ends the process with status 1
\* after the error was written: it is the last result, no call was dispatched
\* after it and no request was sent after it.
C3_FatalToolErrorExits ==
    \A i \in DOMAIN results :
       results[i].res.error = OtherError =>
          /\ pc = "ToolError"
          /\ exitCode = 1
          /\ i = Len(results)
          /\ Len(dispatched) = i
          /\ dispatched[i].idx = results[i].idx
          /\ Len(requests) = results[i].round
          /\ stderr # <<>> /\ stderr[Len(stderr)] = "Error executing tool"
          /\ toolsRunning = 0

\* The first of two calls failed: the second one exists and is not dispatched.
C3_Witness ==
    /\ pc = "ToolError"
    /\ Len(issued[round]) = 2
    /\ Len(DispatchedIn(round)) = 1

CancelledInStream == abortedAt.pc = "Streaming" /\ abortedAt.round = round

\* Once the token is signaled while a stream is consumed, no further response
\* of that stream is processed.
NoChunkAfterCancel ==
    (aborted /\ pc = "Streaming") =>
       Len(ChunksOf(round)) = (IF CancelledInStream THEN abortedAt.chunk ELSE 0)

\* The loop has ended on the token: no error status, no call of the round
\* dispatched, no further request.
CleanTermination ==
    /\ aborted
    /\ exitCode = 0
    /\ DispatchedIn(round) = <<>>
    /\ Len(issued) = round - 1
    /\ Len(requests) = round
    /\ toolsRunning = 0
    /\ ~streamOpen

\* C5 as stated: a token signaled between two responses of a stream ends the
\* loop without a tool dispatch of that round, without a further request,
\* without an error status and silently: nothing is output after the signal.
C5_SilentTermination ==
    /\ NoChunkAfterCancel
    /\ (pc = "Cancelled" /\ CancelledInStream) =>
          /\ CleanTermination
          /\ Len(stdout) = abortedAt.out
          /\ Len(stderr) = abortedAt.err

\* C5 (amended): a token signaled between two responses of a stream ends the
\* loop when the next response arrives, without a tool dispatch of that round,
\* without a further request and without an error status; the text of that
\* response is not written by process.stdout.write, but the response is dumped
\* by console.log and the notice "Operation cancelled." goes to stderr.
C5_CancelMidStream ==
    /\ NoChunkAfterCancel
    /\ pc = "Cancelled" =>
          /\ CleanTermination
          /\ Written(stdout) = TextOf(received)
    /\ (pc = "Cancelled" /\ CancelledInStream) =>
          /\ \A i \in (abortedAt.out + 1)..Len(stdout) : stdout[i].log
          /\ Len(stdout) > abortedAt.out
          /\ stdout[Len(stdout)].tag = "RAW_RESPONSE_CHUNK"
          /\ stderr = SubSeq(stderr, 1, abortedAt.err) \o <<"Operation cancelled.">>

\* Cancelled between the first and the second response, with a call pending.
C5_Witness ==
    /\ pc = "Cancelled"
    /\ abortedAt.pc = "Streaming"
    /\ abortedAt.round = round
    /\ abortedAt.chunk = 1
    /\ functionCalls # <<>>

\* C6 as stated: the token is checked before each tool dispatch, so no call
\* is handed to executeToolCall once the token is signaled.
C6_NoDispatchAfterCancel ==
    \A i \in DOMAIN dispatched : ~dispatched[i].signalAborted

\* C7: at most one operation is outstanding: a stream being consumed or one
\* executing tool call; a call is dispatched only after the stream of its round
\* has completed and every earlier call has returned.
C7_OneOutstanding ==
    /\ (IF streamOpen THEN 1 ELSE 0) + toolsRunning <= 1
    /\ toolsRunning \in {0, 1}
    /\ toolsRunning = Len(dispatched) - Len(results)
    /\ streamOpen <=> pc = "Streaming"
    /\ toolsRunning = 1 <=> pc = "ExecutingTools"
    /\ \A i \in DOMAIN dispatched : Len(issued) >= dispatched[i].round

\* The second call of a round is executing.
C7_Witness ==
    /\ pc = "ExecutingTools"
    /\ fcIdx = 2
    /\ toolsRunning = 1
    /\ Len(results) = 1

(***************************************************************************)
(* Properties of the classifier                                            *)
(***************************************************************************)
Tokens(cmd) == IF Len(Trim(cmd)) = 0 THEN <<>> ELSE Split(Trim(cmd))

\* The red-flag patterns both implementations list.
RedFlag(s) ==
    \/ RmThen(s, "-r", "/")
    \/ RmThen(s, "-f", "*")
    \/ SudoRm(s)
    \/ Chmod777(s)
    \/ ThenAfterBlanks(s, "|", "sh")
    \/ PipedToBash(s, "curl")

DurationTokens == {"30"}

\* C8: a command that matches a red-flag pattern is classified dangerous by
\* either implementation, whatever the database entry of its first token is
\* (absent, terminal level or mapping).
C8_RedFlagIsDangerous ==
    RedFlag(Text(command)) =>
       /\ level \in {"", "dangerous"}
       /\ legacyLevel \in {"", "dangerous"}

\* C9: a command whose first token is not a key of the safety database is
\* classified requires-approval by either implementation.
C9_UnknownRequiresApproval ==
    (Tokens(command) # <<>> /\ Tokens(command)[1] \notin DOMAIN commandSafety.m) =>
       /\ level \in {"", "requires-approval"}
       /\ legacyLevel \in {"", "requires-approval"}

\* C10: "timeout d c" with a duration token d and a non-empty command c is
\* classified as c is; a timeout command of fewer than three tokens is
\* requires-approval.
C10_TimeoutIsTransparent ==
    LET parts == Tokens(command)
        nested == Join(SubSeq(parts, 3, Len(parts)))
    IN (parts # <<>> /\ parts[1] = "timeout") =>
          IF Len(parts) >= 3
          THEN parts[2] \in DurationTokens =>
                  /\ level \in {"", Show(analyzeSafety(nested))}
                  /\ legacyLevel \in {"", Show(analyzeSafetyLegacy(nested))}
          ELSE /\ level \in {"", "requires-approval"}
               /\ legacyLevel \in {"", "requires-approval"}

\* The embedded command of an xargs command: what follows the options.
Embedded(parts) ==
    LET at == FindIndex([i \in DOMAIN parts |-> i > 1 /\ ~StartsWithDash(parts[i])])
    IN IF at = 0 THEN <<>> ELSE SubSeq(parts, at, Len(parts))

\* C11: "xargs c" is classified as c escalated by one step, capped at
\* dangerous; xargs without an embedded command is requires-approval.
C11_XargsEscalatesOnce ==
    LET parts == Tokens(command)
        nested == Join(Embedded(parts))
    IN (parts # <<>> /\ parts[1] = "xargs") =>
          IF Embedded(parts) # <<>>
          THEN /\ level \in {"", Show(escalateSafetyLevel(analyzeSafety(nested)))}
               /\ legacyLevel \in
                     {"", Show(escalateSafetyLevel(analyzeSafetyLegacy(nested)))}
          ELSE /\ level \in {"", "requires-approval"}
               /\ legacyLevel \in {"", "requires-approval"}

\* C12: "git status" is safe, "git push" requires-approval and
\* "git reset --hard" dangerous: a subcommand of a mapping resolves to its
\* database level, recursing into a nested mapping for its flags.  The
\* commands are "git sub" with sub a key of the git mapping and "git sub flag"
\* with sub a nested mapping and flag one of its keys.
C12_SubcommandLevels ==
    LET parts == Tokens(command)
        git == commandSafety.m["git"].m
        isGitSubcommand ==
            /\ Len(parts) \in {2, 3}
            /\ parts[1] = "git"
            /\ parts[2] \in DOMAIN git
            /\ Len(parts) = 3 =>
                  /\ git[parts[2]].t = "object"
                  /\ parts[3] \in DOMAIN git[parts[2]].m
                  /\ StartsWithDash(parts[3])
        databaseLevel ==
            IF git[parts[2]].t = "string" THEN git[parts[2]]
            ELSE IF Len(parts) = 3 THEN git[parts[2]].m[parts[3]]
            ELSE git[parts[2]].m["*"]
        expected == IF parts = <<"git", "status">> THEN "safe"
                    ELSE IF parts = <<"git", "push">> THEN "requires-approval"
                    ELSE IF parts = <<"git", "reset", "--hard">> THEN "dangerous"
                    ELSE Show(databaseLevel)
    IN isGitSubcommand =>
          /\ level \in {"", expected}
          /\ legacyLevel \in {"", expected}

C12_Witness ==
    /\ Tokens(command) = <<"git", "reset", "--hard">>
    /\ level = "dangerous"
    /\ legacyLevel = "dangerous"

\* C13: either implementation returns one of safe, requires-approval and
\* dangerous for every command, and requires-approval for an empty or blank
\* one.
C13_AlwaysALevel ==
    /\ level \in {"", "safe", "requires-approval", "dangerous"}
    /\ legacyLevel \in {"", "safe", "requires-approval", "dangerous"}
    /\ Tokens(command) = <<>> =>
          /\ level \in {"", "requires-approval"}
          /\ legacyLevel \in {"", "requires-approval"}

\* C14: nothing lowers a computed level.  The level of a mapping command is
\* at least the level of its matched subcommand and of every matched flag, and
\* the heuristic overlay of either implementation returns at least the level
\* it is given.  What a mapping command matches is its subcommand and its
\* flags in the mapping of the command, and the argument after the subcommand
\* and the flags in the mapping of the subcommand.
C14_NeverLowered ==
    LET parts == Tokens(command)
        isMapping == /\ parts # <<>>
                     /\ parts[1] \in DOMAIN commandSafety.m
                     /\ commandSafety.m[parts[1]].t = "object"
        config == commandSafety.m[parts[1]].m
        flags == {parts[i] : i \in {k \in 2..Len(parts) : StartsWithDash(parts[k])}}
        levelsIn(m, tokens) ==
            {m[t] : t \in {x \in tokens \cap DOMAIN m :
                               x # "*" /\ m[x] \in {Safe, RequiresApproval, Dangerous}}}
        nested == IF Len(parts) >= 2 /\ parts[2] \in DOMAIN config
                     /\ config[parts[2]].t = "object"
                  THEN config[parts[2]].m
                  ELSE <<>>
        matchedLevels ==
            levelsIn(config, flags \cup (IF Len(parts) >= 2 THEN {parts[2]} ELSE {}))
            \cup levelsIn(nested, flags \cup (IF Len(parts) >= 3 THEN {parts[3]} ELSE {}))
        atLeast(shown, l) ==
            \E r \in {Safe, RequiresApproval, Dangerous} :
               shown = Show(r) /\ Hierarchy(r) >= Hierarchy(l)
    IN /\ \A l \in {Safe, RequiresApproval, Dangerous} :
             /\ Hierarchy(performAdditionalSafetyChecks(Trim(command), l)) >= Hierarchy(l)
             /\ Hierarchy(performAdditionalSafetyChecksLegacy(Trim(command), l))
                   >= Hierarchy(l)
       /\ isMapping =>
             \A l \in matchedLevels :
                /\ level # "" => atLeast(level, l)
                /\ legacyLevel # "" => atLeast(legacyLevel, l)

\* C15: the most restrictive of two levels is commutative and associative,
\* and a command whose flag tokens are permuted among the places of its flags
\* gets the same level from either implementation.
C15_FlagOrderIrrelevant ==
    LET levels == {Safe, RequiresApproval, Dangerous}
        parts == Tokens(command)
        n == Len(parts)
        isFlag(i) == StartsWithDash(parts[i])
        permutations ==
            {q \in [1..n -> 1..n] :
                /\ \A i, j \in 1..n : q[i] = q[j] => i = j
                /\ \A i \in 1..n : IF isFlag(i) THEN isFlag(q[i]) ELSE q[i] = i}
        permuted(q) == Join([i \in 1..n |-> parts[q[i]]])
    IN /\ \A a, b \in levels :
             getMostRestrictiveSafetyLevel(a, b) = getMostRestrictiveSafetyLevel(b, a)
       /\ \A a, b, c \in levels :
             getMostRestrictiveSafetyLevel(getMostRestrictiveSafetyLevel(a, b), c)
                = getMostRestrictiveSafetyLevel(a, getMostRestrictiveSafetyLevel(b, c))
       /\ \A q \in permutations :
             /\ level \in {"", Show(analyzeSafety(permuted(q)))}
             /\ legacyLevel \in {"", Show(analyzeSafetyLegacy(permuted(q)))}

\* C16: shouldAutoApprove(c, enabled) is true exactly when enabled is true
\* and the command is classified safe; a command classified requires-approval
\* or dangerous is never auto-approved.
C16_AutoApproveOnlySafe ==
    autoApprove.asked =>
       /\ autoApprove.current = (autoApprove.enabled /\ level = "safe")
       /\ autoApprove.legacy = (autoApprove.enabled /\ legacyLevel = "safe")

C16_Witness ==
    /\ autoApprove.asked
    /\ autoApprove.enabled
    /\ level = "safe"
    /\ autoApprove.current

(***************************************************************************)
(* Properties of the write_file tool                                       *)
(***************************************************************************)
\* C17: in the default (interactive) approval mode a write_file call modifies
\* the filesystem only after a confirmation request was issued for that call,
\* also when the target path changes between shouldConfirmExecute and execute.
C17_WriteAfterConfirmation ==
    \A w \in writes : w.mode = "DEFAULT" => w.requested

\* C18: in AUTO_EDIT mode shouldConfirmExecute returns false for every
\* parameter set: no confirmation request is built or issued in that mode,
\* and the call proceeds without the user being asked.
C18_AutoEditNeverAsks ==
    /\ approvalMode = "AUTO_EDIT" => writePc \notin {"confirming", "awaiting_approval"}
    /\ \A c \in confirmations : c.mode # "AUTO_EDIT"
    /\ \A p \in ParamSets : \A t \in PathStates : ~shouldConfirmExecute("AUTO_EDIT", p, t)

C18_Witness ==
    \E w \in writes : w.mode = "AUTO_EDIT" /\ ~w.requested

C20_OnlyProceedAlwaysChangesMode ==
    [][approvalMode' # approvalMode =>
          (writePc = "awaiting_approval" /\ outcome' = "ProceedAlways")]_vars

C20_Witness ==
    /\ outcome = "ProceedOnce"
    /\ approvalMode = "DEFAULT"
    /\ \E w \in writes : w.call = writeCalls /\ w.requested

C22_ShutdownBeforeFatalExit ==
    pc = "ApiError" =>
        /\ exitCode > 0
        /\ stderr # <<>> /\ stderr[Len(stderr)] = "API error"
        /\ telemetry \in {"shutdown", "off"}

\* C23: the text of a thought part is never written to the output by
\* process.stdout.write, wherever the thought part stands in the part list
\* of a response.
C23_ThoughtsNeverWritten ==
    \A i \in DOMAIN stdout :
        ~stdout[i].log => \A j \in DOMAIN stdout[i].text : stdout[i].text[j] # "t"

\* C24: the requests dispatched within one round have pairwise distinct
\* callIds, also when several calls of the round carry no id of their own and
\* have the same name.
C24_DistinctCallIds ==
    \A i, j \in DOMAIN dispatched :
        (i # j /\ dispatched[i].round = dispatched[j].round)
            => dispatched[i].req.callId # dispatched[j].req.callId

C26_EscalateOneStep ==
    LET up == [l \in {"safe", "requires-approval", "dangerous"} |->
                  IF l = "safe" THEN "requires-approval" ELSE "dangerous"]
        parts == Tokens(command)
        embedded == Embedded(parts)
        nested == Show(analyzeSafetyLegacy(Join(embedded)))
    IN /\ \A l \in {Safe, RequiresApproval, Dangerous} :
             Show(escalateSafetyLevel(l)) = up[Show(l)]
       /\ ( /\ legacyLevel # ""
            /\ parts # <<>> /\ parts[1] = "xargs"
            /\ embedded # <<>>
            /\ \A i \in DOMAIN embedded : embedded[i] # "xargs"
            /\ nested \in DOMAIN up )
          => legacyLevel = up[nested]

\* The ceiling: the embedded command is dangerous already.
C26_Witness ==
    /\ Tokens(command) = <<"xargs", "rm", "-rf">>
    /\ legacyLevel = "dangerous"

C28_WildcardAndFlagsMaximum ==
    LET parts == Tokens(command)
        config == Get(commandSafety, parts[1])
        args == Tail(parts)
        Own(m, k) == m.t = "object" /\ k \in DOMAIN m.m
        Rank(v) == IF v.t = "string" /\ Hierarchy(v) >= 0 THEN Hierarchy(v) ELSE 1
        Largest(ranks) == CHOOSE r \in ranks : \A q \in ranks : q <= r
        Candidate(toks) == FindIndex([i \in DOMAIN toks |-> ~StartsWithDash(toks[i])])
        FlagRanks(m, toks, Entry(_, _)) ==
            {Entry(m.m[toks[i]], SubSeq(toks, i + 1, Len(toks))) :
                i \in {j \in DOMAIN toks : StartsWithDash(toks[j]) /\ Own(m, toks[j])}}
        Wildcard(m) == IF Own(m, "*") THEN Rank(m.m["*"]) ELSE 1
        Inner(m, toks) ==
            LET at == Candidate(toks)
                sub == IF at > 0 /\ Own(m, toks[at]) THEN Rank(m.m[toks[at]])
                       ELSE Wildcard(m)
            IN Largest({sub} \cup FlagRanks(m, toks, LAMBDA e, rest : Rank(e)))
        Outer(m, toks) ==
            Largest({Wildcard(m)} \cup
                    FlagRanks(m, toks,
                              LAMBDA e, rest : IF e.t = "string" THEN Rank(e)
                                               ELSE Inner(e, rest)))
        expected == IF Outer(config, args) = 0 THEN Safe
                    ELSE IF Outer(config, args) = 1 THEN RequiresApproval
                    ELSE Dangerous
    IN ( /\ parts # <<>>
         /\ config.t = "object"
         /\ ~(Own(config, "*") /\ config.m["*"] = AnalyzeNested)
         /\ Candidate(args) > 0
         /\ ~Own(config, args[Candidate(args)]) )
       => /\ level \in {"", Show(performAdditionalSafetyChecks(Trim(command), expected))}
          /\ legacyLevel \in
                {"", Show(performAdditionalSafetyChecksLegacy(Trim(command), expected))}

\* C29: the subcommand candidate of a mapping command is its first argument
\* that is no flag: when flags that are keys neither of the mapping nor of the
\* subcommand's mapping stand between the command and a subcommand of the
\* mapping, the command is classified as it is without them (the heuristic
\* checks matching neither form of the command).
C29_FirstNonFlagIsCandidate ==
    LET parts == Tokens(command)
        config == Get(commandSafety, parts[1])
        args == Tail(parts)
        at == FindIndex([i \in DOMAIN args |-> ~StartsWithDash(args[i])])
        stripped == Join(<<parts[1]>> \o SubSeq(args, at, Len(args)))
        Own(m, k) == m.t = "object" /\ k \in DOMAIN m.m
        Inert(cmd) ==
            \A l \in {Safe, RequiresApproval, Dangerous} :
                /\ performAdditionalSafetyChecks(cmd, l) = l
                /\ performAdditionalSafetyChecksLegacy(cmd, l) = l
    IN ( /\ parts # <<>>
         /\ config.t = "object"
         /\ ~(Own(config, "*") /\ config.m["*"] = AnalyzeNested)
         /\ at > 1
         /\ Own(config, args[at])
         /\ \A i \in 1..(at - 1) :
               ~Own(config, args[i]) /\ ~Own(config.m[args[at]], args[i])
         /\ Inert(Trim(command))
         /\ Inert(stripped) )
       => /\ level \in {"", Show(analyzeSafety(stripped))}
          /\ legacyLevel \in {"", Show(analyzeSafetyLegacy(stripped))}

\* C30: a redirection to the null device at the end of a command raises the
\* level from safe to requires-approval, for every command that is safe
\* without it, and leaves a requires-approval or dangerous level as it is; it
\* never makes a command dangerous.
C30_NullDeviceRaisesSafeOnly ==
    LET parts == Tokens(command)
        n == Len(parts)
        cut == IF n >= 3 /\ parts[n - 1] = ">" /\ parts[n] = "/dev/null" THEN 2
               ELSE IF n >= 2 /\ parts[n] = ">/dev/null" THEN 1
               ELSE 0
        base == SubSeq(parts, 1, n - cut)
        Raised(l) == IF l = "safe" THEN "requires-approval" ELSE l
    IN ( /\ cut > 0
         /\ \A i \in DOMAIN base : base[i] \notin {">", "/dev/null", ">/dev/null"} )
       => /\ level \in {"", Raised(Show(analyzeSafety(Join(base))))}
          /\ legacyLevel \in {"", Raised(Show(analyzeSafetyLegacy(Join(base))))}

\* C31: "watch [options] c" is classified as the embedded command c is, with
\* no escalation, in either implementation; watch without an embedded
\* command is requires-approval.
C31_WatchIsTransparent ==
    LET parts == Tokens(command)
        nested == Join(Embedded(parts))
    IN (parts # <<>> /\ parts[1] = "watch") =>
          IF Embedded(parts) # <<>>
          THEN /\ level \in {"", Show(analyzeSafety(nested))}
               /\ legacyLevel \in {"", Show(analyzeSafetyLegacy(nested))}
          ELSE /\ level \in {"", "requires-approval"}
               /\ legacyLevel \in {"", "requires-approval"}

\* C32: the two implementations return the same level for every command
\* that contains no redirection to the null device and does not start with
\* xargs.
C32_ImplementationsAgree ==
    LET parts == Tokens(command)
    IN ( /\ level # "" /\ legacyLevel # ""
         /\ ~ThenAfterBlanks(Text(command), ">", "/dev/null")
         /\ (parts # <<>> => parts[1] # "xargs") )
       => level = legacyLevel

C34_ModeByTerminalAndQuestion ==
    launch.mode # "" =>
       /\ launch.mode # "unexpected"
       /\ launch.mode = "interactive"
             <=> (launch.stdinIsTTY = "true" /\ launch.question = "")

(***************************************************************************)
(* Properties of the content of a write                                    *)
(***************************************************************************)
\* C35: in overwrite mode the content written to the file is the content the
\* result diff reports as written, and the content the confirmation diff
\* showed as proposed when a confirmation was shown.
C35_WrittenIsProposedAndReported ==
    overwrite.disk # "none" =>
       /\ overwrite.disk = overwrite.reported
       /\ overwrite.proposed # "none" => overwrite.disk = overwrite.proposed

(***************************************************************************)
(* Properties of the keypress hook                                         *)
(***************************************************************************)
\* C36: with the Kitty protocol enabled and no paste in progress, an arrow
\* key the listener receives is handed to the callback as that key, and a
\* Kitty Enter sequence the listener receives is handed to the callback as a
\* return key, whatever was received before.
C36_KittyDropsNoKey ==
    [][\A k \in {"up", "kittyEnter"} :
          ( /\ hook.kitty
            /\ ~hook.isPaste
            /\ hook'.received = Append(hook.received, Keys[k]) )
          => /\ Len(hook'.delivered) = Len(hook.delivered) + 1
             /\ hook'.delivered[Len(hook'.delivered)].sequence = Keys[k].sequence
             /\ hook'.delivered[Len(hook'.delivered)].name
                   = (IF k = "up" THEN "up" ELSE "return")]_vars

\* C37: a Ctrl+C the listener receives, in standard form or as the Kitty
\* sequence, is handed to the callback in that call as the key c with ctrl,
\* and the buffer of Kitty sequences is empty afterwards.
C37_CtrlCPassesThrough ==
    [][\A k \in {"ctrlC", "kittyCtrlC"} :
          hook'.received = Append(hook.received, Keys[k])
          => /\ hook'.kittySequenceBuffer = <<>>
             /\ hook'.delivered =
                   Append(hook.delivered,
                          [name |-> "c", ctrl |-> TRUE, meta |-> FALSE, shift |-> FALSE,
                           paste |-> FALSE, sequence |-> Keys[k].sequence,
                           kittyProtocol |-> FALSE])]_vars

C37_Witness ==
    /\ hook.kitty
    /\ hook.received = <<Keys.up, Keys.pasteStart, Keys.kittyCtrlC>>
    /\ Len(hook.delivered) = 1
    /\ hook.delivered[1].name = "c"
    /\ hook.kittySequenceBuffer = <<>>

\* C38: while a paste is open (a paste-start was received and neither a
\* paste-end nor a cleanup after it), a key other than Ctrl+C hands nothing to
\* the callback; the paste-end or the cleanup hands it exactly one key with
\* paste = TRUE whose sequence is the concatenation of the sequences received
\* since the paste-start, and the paste buffer is empty afterwards.
C38_PasteDeliveredOnce ==
    [][LET r == hook.received
           key == hook'.received[Len(hook'.received)]
           Open(i) == /\ r[i].name = "paste-start"
                      /\ \A j \in (i + 1)..Len(r) : r[j].name \notin {"paste-end", "cleanup"}
           start == CHOOSE i \in DOMAIN r : Open(i) /\ \A j \in 1..(i - 1) : ~Open(j)
           cat[i \in 0..Len(r)] ==
               IF i = 0 THEN <<>>
               ELSE cat[i - 1] \o (IF i > start /\ ~IsCtrlC(r[i]) /\ r[i].name # "paste-start"
                                   THEN r[i].sequence ELSE <<>>)
       IN ( /\ Len(hook'.received) = Len(r) + 1
            /\ \E i \in DOMAIN r : Open(i)
            /\ ~IsCtrlC(key) )
          => IF key.name \in {"paste-end", "cleanup"}
             THEN /\ hook'.delivered =
                        Append(hook.delivered,
                               [name |-> "", ctrl |-> FALSE, meta |-> FALSE, shift |-> FALSE,
                                paste |-> TRUE, sequence |-> cat[Len(r)],
                                kittyProtocol |-> FALSE])
                  /\ hook'.pasteBuffer = <<>>
             ELSE hook'.delivered = hook.delivered]_vars

(***************************************************************************)
(* Properties of the terminal setup                                        *)
(***************************************************************************)
\* C39: whenever configureVSCode has written over an existing
\* keybindings.json, a backup copy exists and holds what the file held before
\* the write.
C39_BackupBeforeRewrite ==
    setup.rewritten =>
       /\ setup.backup # "none"
       /\ setup.backup = setup.previous

====
